---- MODULE Spec2Model ----
(***************************************************************************)
(* Orchestration layer of the domain-bound agent swarm: the EventBus       *)
(* (Map<EventType, Set<EventHandler>> draft) and the AgentRuntime that     *)
(* registers agents, binds platform adapters and runs the                  *)
(* 'generate-content' job processor.                                       *)
(*                                                                         *)
(* JavaScript runs each synchronous stretch of code to completion, so one  *)
(* action is one such stretch: a call up to its first await, or the        *)
(* continuation after a promise has settled.                               *)
(***************************************************************************)
EXTENDS Integers, Sequences, FiniteSets, TLC

(* ------------------------------ bounds -------------------------------- *)
\* user handlers that external code subscribes to the bus
MaxHandlers == 2
\* publish calls made by external code in the bus specification
MaxPublishes == 2
\* registerAgent calls
MaxAgents == 2
\* length of the platform list given to registerAgent
MaxPlatforms == 2
\* adapter instances the hosting application can bind
MaxAdapters == 1
\* job firings the queue backend starts
MaxFirings == 1
\* distinct texts the content generator can return
MaxContents == 1
\* adapter instances bound one after the other to the same platform
MaxRebindAdapters == 2
\* startAgent and stopAgent calls per agent
MaxAgentCalls == 2
\* start() calls
MaxStarts == 2
\* largest template.format.maxLength
MaxLength == 2
\* entries of the variations array of a structured response
MaxVariations == 1
\* generateContent calls
MaxGenCalls == 1
\* length of request.platforms
MaxRequestPlatforms == 2
\* length of the analysis text of the performance estimate
MaxAnalysisLen == 4
\* pieces a template prompt is put together from
MaxPromptPieces == 2
\* entries of request.variables
MaxVariables == 2
\* buildPrompt calls
MaxBuilds == 1

(* ------------------------------ domain -------------------------------- *)
CONTENT_CREATED == "content.created"
CONTENT_SCHEDULED == "content.scheduled"
CONTENT_PUBLISHED == "content.published"
ENGAGEMENT_RECEIVED == "engagement.received"
TREND_DETECTED == "trend.detected"
STRATEGY_UPDATED == "strategy.updated"
ANALYTICS_UPDATED == "analytics.updated"

EventType ==
  { CONTENT_CREATED, CONTENT_SCHEDULED, CONTENT_PUBLISHED, ENGAGEMENT_RECEIVED,
    TREND_DETECTED, STRATEGY_UPDATED, ANALYTICS_UPDATED }

\* the event types the core itself produces or consumes; external code of
\* the model subscribes and publishes under these
CoreTypes == { CONTENT_CREATED, STRATEGY_UPDATED }

\* handler references: 0 is the closure the AgentRuntime constructor
\* subscribes, 1..MaxHandlers are handlers of external code
RuntimeHandler == 0
UserHandlers == 1..MaxHandlers

\* enum Platform
TWITTER == "twitter"
TELEGRAM == "telegram"
DISCORD == "discord"
Platform == { TWITTER, TELEGRAM, DISCORD }

VARIABLES
  handlers,   \* EventBus.handlers : Map<EventType, Set<EventHandler>>
  pubs,       \* the publish calls made so far, in call order
  lastCall,   \* history: the latest subscribe/unsubscribe call per (type, handler)
  raised,     \* TRUE once a synchronous bus call threw to its caller
  agents,     \* AgentRuntime.agents : Map<string, SocialAgent>
  platforms,  \* AgentRuntime.platforms : Map<Platform, PlatformAdapter>
  queue,      \* the jobs added to contentQueue, in call order
  firings,    \* the runs of the 'generate-content' processor, in start order
  posts,      \* the adapter.post calls, in call order
  regCalls,   \* history: the registerAgent calls with their arguments and result
  lastBound,  \* history: the adapter of the latest registerPlatform call per platform
  lifecycle,  \* the queue backend and the Redis connection as start/stop drive them
  generator   \* the generateContent calls of the ContentGenerator, in call order

busVars == <<handlers, pubs, lastCall, raised>>
runtimeVars == <<agents, platforms, queue, firings, posts, regCalls, lastBound,
                 lifecycle, generator>>
vars == <<handlers, pubs, lastCall, raised, agents, platforms, queue, firings,
          posts, regCalls, lastBound, lifecycle, generator>>

(* ------------------------------ EventBus ------------------------------ *)
\* Map.delete(key)
MapDelete(m, k) == [x \in (DOMAIN m) \ {k} |-> m[x]]

\* Map.set(key, value)
MapSet(m, k, v) == [x \in (DOMAIN m) \cup {k} |-> IF x = k THEN v ELSE m[x]]

\* this.handlers.get(event.type) || new Set()
RegisteredHandlers(reg, type) == IF type \in DOMAIN reg THEN reg[type] ELSE {}

\* a subscribe that takes a second registration of a handler for its removal
subscribeToggles(reg, type, h) ==
  IF h \in RegisteredHandlers(reg, type)
  THEN [reg EXCEPT ![type] = @ \ {h}]
  ELSE MapSet(reg, type, RegisteredHandlers(reg, type) \cup {h})

\* subscribe(eventType, handler)
subscribe(reg, type, h) ==
  LET withEntry == IF type \in DOMAIN reg THEN reg ELSE MapSet(reg, type, {})
  IN  [withEntry EXCEPT ![type] = @ \cup {h}]

\* unsubscribe that drops the whole entry of the type
unsubscribeDropsType(reg, type, h) ==
  [ handlers |-> IF type \in DOMAIN reg THEN MapDelete(reg, type) ELSE reg,
    threw |-> FALSE ]

\* unsubscribe that keeps the entry of a type whose last handler it removed
unsubscribeNoCleanup(reg, type, h) ==
  [ handlers |-> IF type \in DOMAIN reg THEN [reg EXCEPT ![type] = @ \ {h}] ELSE reg,
    threw |-> FALSE ]

\* unsubscribe that removes the handler only when it is the last of its type
unsubscribeOnlyLast(reg, type, h) ==
  [ handlers |-> IF type \in DOMAIN reg /\ reg[type] = {h}
                 THEN MapDelete(reg, type) ELSE reg,
    threw |-> FALSE ]

\* unsubscribe(eventType, handler): the registry it leaves and whether it threw
unsubscribe(reg, type, h) ==
  IF type \in DOMAIN reg
  THEN LET rest == reg[type] \ {h}
       IN  [ handlers |-> IF rest = {} THEN MapDelete(reg, type)
                                       ELSE [reg EXCEPT ![type] = rest],
             threw |-> FALSE ]
  ELSE [ handlers |-> reg, threw |-> FALSE ]

\* a lookup that creates the missing entry (get-or-create)
RegistryAfterPublishCreates(reg, type) ==
  IF type \in DOMAIN reg THEN reg ELSE MapSet(reg, type, {})

\* publish leaves the registry alone: it only reads it with Map.get
RegistryAfterPublish(reg, type) == reg

\* a delivery that stops after the first handler
InvokedAtPublishFirstOnly(targets) ==
  IF targets = {} THEN {} ELSE {CHOOSE h \in targets : \A g \in targets : h <= g}

\* Array.from(handlers).map(async handler => ...): the handlers the call invokes
InvokedAtPublish(targets) == targets

\* a map callback without the try/catch: the handler's rejection passes through
HandlerWrapperNoCatch(outcome) ==
  IF outcome = "none" THEN "pending"
  ELSE IF outcome = "throw" THEN "rejected" ELSE "fulfilled"

\* the promise of one map callback, given how the handler's own promise ended:
\* try { await handler(event) } catch (error) { console.error(...) }
HandlerWrapper(outcome) ==
  IF outcome = "none" THEN "pending" ELSE "fulfilled"

\* Promise.all over the wrapper promises
PromiseAll(results) ==
  IF \E h \in DOMAIN results : results[h] = "rejected" THEN "rejected"
  ELSE IF \A h \in DOMAIN results : results[h] = "fulfilled" THEN "fulfilled"
  ELSE "pending"

\* try { await Promise.all(promises) } catch (error) { console.error(...) }
PublishStatus(results) ==
  IF PromiseAll(results) = "pending" THEN "pending" ELSE "resolved"

(* --------------------------- events, publish --------------------------- *)
\* interface Event; id (Math.random) and timestamp (new Date) are taken from
\* a stamp that is fresh for every event literal the program builds
Event(stamp, type, agentId, payload, domain, platform) ==
  [ id |-> stamp, type |-> type, agentId |-> agentId, timestamp |-> stamp,
    payload |-> payload,
    metadata |-> [ domain |-> domain, platform |-> platform, priority |-> 1 ] ]

\* the stamp of the next event literal
NextStamp(ps) == Len(ps) + 1

\* a handler that does not look the agent up
RuntimeHandlerStartNoAgentCheck(event, agts, plats) ==
  IF event.metadata.platform \notin DOMAIN plats THEN "returned" ELSE "posting"

\* a handler that ignores events once stop() has returned
RuntimeHandlerStartUnlessStopped(event, agts, plats) ==
  IF lifecycle.stop = "resolved" THEN "returned"
  ELSE IF event.agentId \notin DOMAIN agts THEN "returned"
  ELSE IF event.metadata.platform \notin DOMAIN plats THEN "returned"
  ELSE "posting"

\* the CONTENT_CREATED handler up to its first await: "returned" when the
\* agent is missing (logged, return) or the adapter is missing (thrown and
\* caught inside the handler), "posting" when adapter.post has been called
RuntimeHandlerStart(event, agts, plats) ==
  IF event.agentId \notin DOMAIN agts THEN "returned"
  ELSE IF event.metadata.platform \notin DOMAIN plats THEN "returned"
  ELSE "posting"

\* how a handler's own promise stands right after publish invoked it
HandlerStart(h, event, agts, plats) ==
  IF h = RuntimeHandler /\ RuntimeHandlerStart(event, agts, plats) = "returned"
  THEN "ok" ELSE "none"

\* the wrapper promises of one publish call
Wrappers(outcome) == [h \in DOMAIN outcome |-> HandlerWrapper(outcome[h])]

\* publish(event): the record of the call right after its synchronous part.
\* calls counts the invocations of each handler, outcome is how each
\* handler's own promise ended ("none" while pending); source and
\* registered are history: who published (external code, registerAgent, the
\* job firing f, or the handler serving publish call p) and who was
\* subscribed at the call
publish(reg, event, agts, plats, source, registered) ==
  LET invoked == InvokedAtPublish(RegisteredHandlers(reg, event.type))
      outcome == [h \in invoked |-> HandlerStart(h, event, agts, plats)]
  IN  [ event |-> event,
        calls |-> [h \in invoked |-> 1],
        outcome |-> outcome,
        status |-> PublishStatus(Wrappers(outcome)),
        source |-> source,
        registered |-> registered ]

\* a handler's promise of publish call p ends with outcome o
SettleHandler(pub, h, o) ==
  LET outcome == [pub.outcome EXCEPT ![h] = o]
  IN  [pub EXCEPT !.outcome = outcome,
                  !.status = IF pub.status = "pending"
                             THEN PublishStatus(Wrappers(outcome)) ELSE @]

\* history: the handlers whose latest bus call under type was subscribe
Subscribed(type) ==
  {h \in UserHandlers \cup {RuntimeHandler} : lastCall[<<type, h>>] = "subscribe"}

\* adapter.post(event.payload) as called by the CONTENT_CREATED handler
PostsAfterPublish(po, pub, idx, plats) ==
  IF /\ RuntimeHandler \in DOMAIN pub.outcome
     /\ pub.outcome[RuntimeHandler] = "none"
  THEN Append(po, [ adapter |-> plats[pub.event.metadata.platform],
                    payload |-> pub.event.payload,
                    pub |-> idx, state |-> "pending" ])
  ELSE po

(* ---------------------------- bus operations --------------------------- *)
Subscribe(t, h) ==
  /\ handlers' = subscribe(handlers, t, h)
  /\ lastCall' = [lastCall EXCEPT ![<<t, h>>] = "subscribe"]
  /\ UNCHANGED <<pubs, raised, runtimeVars>>

Unsubscribe(t, h) ==
  LET r == unsubscribe(handlers, t, h)
  IN  /\ handlers' = r.handlers
      /\ raised' = (raised \/ r.threw)
      /\ lastCall' = [lastCall EXCEPT ![<<t, h>>] = "unsubscribe"]
      /\ UNCHANGED <<pubs, runtimeVars>>

\* external code publishes an event of type t
Publish(t) ==
  /\ Len(pubs) < MaxPublishes
  /\ LET ev == Event(NextStamp(pubs), t, "external", "payload", "crypto", TWITTER)
         pub == publish(handlers, ev, agents, platforms, <<"external", 0>>, Subscribed(t))
     IN  /\ pubs' = Append(pubs, pub)
         /\ posts' = PostsAfterPublish(posts, pub, Len(pubs) + 1, platforms)
  /\ handlers' = RegistryAfterPublish(handlers, t)
  /\ UNCHANGED <<generator, lifecycle, lastBound, lastCall, raised, agents, platforms, queue, firings, regCalls>>

\* the promise of user handler h, invoked by publish call p, is fulfilled
\* ("ok") or rejected ("throw")
HandlerSettle(p, h, o) ==
  /\ p \in 1..Len(pubs)
  /\ h \in DOMAIN pubs[p].outcome
  /\ pubs[p].outcome[h] = "none"
  /\ pubs' = [pubs EXCEPT ![p] = SettleHandler(@, h, o)]
  /\ UNCHANGED <<handlers, lastCall, raised, runtimeVars>>

EmptyMap == [x \in {} |-> {}]

\* after the constructor: the queue processes jobs, the Redis connection is
\* open, stop() has not been called; resumes counts the start() calls, log
\* lists the backend calls of stop() and their completions in order,
\* pubsAtStop is the number of publish calls made when the pause of stop()
\* completed, and agentCall lists the registerAgent/startAgent/stopAgent
\* calls per agent in call order
NewLifecycle ==
  [ queue |-> "running", redis |-> "open", stop |-> "idle", resumes |-> 0,
    log |-> <<>>, pubsAtStop |-> 0, agentCall |-> EmptyMap ]

\* no generateContent call has been made
NewGenerator == [ calls |-> <<>> ]

InitBus ==
  /\ handlers = EmptyMap
  /\ pubs = <<>>
  /\ lastCall = [x \in EventType \X (UserHandlers \cup {RuntimeHandler}) |-> "none"]
  /\ raised = FALSE
  /\ agents = EmptyMap
  /\ platforms = EmptyMap
  /\ queue = <<>>
  /\ firings = <<>>
  /\ posts = <<>>
  /\ regCalls = <<>>
  /\ lastBound = EmptyMap
  /\ lifecycle = NewLifecycle
  /\ generator = NewGenerator

NextBus ==
  \/ \E t \in CoreTypes, h \in UserHandlers : Subscribe(t, h)
  \/ \E t \in CoreTypes, h \in UserHandlers : Unsubscribe(t, h)
  \/ \E t \in CoreTypes : Publish(t)
  \/ \E p \in 1..Len(pubs), h \in UserHandlers, o \in {"ok", "throw"} :
       HandlerSettle(p, h, o)

SpecBus == InitBus /\ [][NextBus]_vars

(* ----------------------------- AgentRuntime ---------------------------- *)
AgentIds == 1..MaxAgents
Adapters == 1..MaxAdapters
Contents == 1..MaxContents
Domains == {"crypto", "gaming"}
\* errors the content generator rejects with
GenErrors == {"Generation failed", "Rate limit"}

\* the Platform[] arguments of registerAgent
RECURSIVE SeqsUpTo(_, _)
SeqsUpTo(S, n) ==
  IF n = 0 THEN {<<>>}
  ELSE LET shorter == SeqsUpTo(S, n - 1)
       IN  shorter \cup {Append(q, x) : q \in {r \in shorter : Len(r) = n - 1}, x \in S}
PlatformLists == SeqsUpTo(Platform, MaxPlatforms)

\* a factory that ignores the domain it is given
createAgentDefaultDomain(domain, plats, id) ==
  [ id |-> id, domain |-> "general", platforms |-> plats,
    contentStrategy |-> "defaultStrategy" ]

\* AgentFactory.createAgent(domain, platforms), id being the fresh uuidv4()
createAgent(domain, plats, id) ==
  [ id |-> id, domain |-> domain, platforms |-> plats,
    contentStrategy |-> "defaultStrategy" ]

\* an event literal that carries the event's own id as agentId
StrategyUpdatedEventOwnId(stamp, agent, plats) ==
  Event(stamp, STRATEGY_UPDATED, stamp, agent.contentStrategy, agent.domain,
        IF plats = <<>> THEN "undefined" ELSE plats[1])

\* the event literal registerAgent publishes; platforms[0] of an empty
\* array is undefined
StrategyUpdatedEvent(stamp, agent, plats) ==
  Event(stamp, STRATEGY_UPDATED, agent.id, agent.contentStrategy, agent.domain,
        IF plats = <<>> THEN "undefined" ELSE plats[1])

\* repeat: { every: 3600000 }, one hour in milliseconds
RepeatEvery == 3600000

\* the job registerAgent adds to the queue
GenerateContentJob(agent) ==
  [ name |-> "generate-content", data |-> [agentId |-> agent.id],
    opts |-> [repeat |-> [every |-> RepeatEvery]] ]

\* getAgent(id)
getAgent(agts, id) == IF id \in DOMAIN agts THEN agts[id] ELSE "undefined"

\* the jobs of the queue q that carry agent id
JobsIn(q, id) ==
  {j \in 1..Len(q) : q[j].name = "generate-content" /\ q[j].data.agentId = id}

\* a registerAgent that adds the job before it publishes the event
AtPublishScheduled(agts, q, agent) ==
  [ agents |-> MapSet(agts, agent.id, agent),
    queue |-> Append(q, GenerateContentJob(agent)) ]

\* what registerAgent has done when it calls eventBus.publish: the agent is
\* stored with this.agents.set, contentQueue.add has not been called
AtPublish(agts, q, agent) ==
  [ agents |-> MapSet(agts, agent.id, agent), queue |-> q ]

\* registerAgent(domain, platforms); delivered is history: what a handler
\* of the STRATEGY_UPDATED event finds when publish invokes it
RegisterAgent(domain, plats) ==
  /\ Len(regCalls) < MaxAgents
  /\ \E id \in AgentIds \ DOMAIN agents :
       LET agent == createAgent(domain, plats, id)
           ev == StrategyUpdatedEvent(NextStamp(pubs), agent, plats)
           at == AtPublish(agents, queue, agent)
           agts == at.agents
           pub == publish(handlers, ev, agts, platforms, <<"registerAgent", 0>>,
                          Subscribed(STRATEGY_UPDATED))
       IN  /\ agents' = MapSet(agents, agent.id, agent)
           /\ pubs' = Append(pubs, pub)
           /\ posts' = PostsAfterPublish(posts, pub, Len(pubs) + 1, platforms)
           /\ queue' = Append(queue, GenerateContentJob(agent))
           /\ regCalls' = Append(regCalls,
                [ domain |-> domain, platforms |-> plats, returned |-> agent,
                  delivered |-> [ agent |-> getAgent(at.agents, agent.id),
                                  jobs |-> JobsIn(at.queue, agent.id) ] ])
           /\ lifecycle' = [lifecycle EXCEPT
                              !.agentCall = MapSet(@, agent.id, <<"registerAgent">>)]
  /\ UNCHANGED <<generator, lastBound, handlers, lastCall, raised, platforms, firings>>

\* a registration that keeps only the binding it makes
registerPlatformOnly(plats, platform, adapter) == [x \in {platform} |-> adapter]

\* a registration that keeps the adapter a platform already has
registerPlatformKeepsFirst(plats, platform, adapter) ==
  IF platform \in DOMAIN plats THEN plats ELSE MapSet(plats, platform, adapter)

\* registerPlatform(platform, adapter): this.platforms.set(platform, adapter)
registerPlatform(plats, platform, adapter) == MapSet(plats, platform, adapter)

RegisterPlatform(platform, adapter) ==
  /\ platforms' = registerPlatform(platforms, platform, adapter)
  /\ lastBound' = MapSet(lastBound, platform, adapter)
  /\ UNCHANGED <<generator, lifecycle, busVars, agents, queue, firings, posts, regCalls>>

\* the event literal the job processor publishes for one platform
ContentCreatedEvent(stamp, agent, platform, content) ==
  Event(stamp, CONTENT_CREATED, agent.id, content, agent.domain, platform)

\* a loop without the adapter lookup
EnterIterationNoLookup(fr, plats, adapters) ==
  IF fr.k > Len(plats) THEN [fr EXCEPT !.pc = "resolved"]
  ELSE [fr EXCEPT !.pc = "generating",
                  !.gens = Append(@, [ platform |-> plats[fr.k], state |-> "pending",
                                       error |-> "none", content |-> 0 ])]

\* a loop that starts generation for all remaining platforms at once
EnterIterationAllAtOnce(fr, plats, adapters) ==
  IF fr.k > Len(plats) THEN [fr EXCEPT !.pc = "resolved"]
  ELSE IF plats[fr.k] \notin DOMAIN adapters
  THEN [fr EXCEPT !.pc = "rejected", !.error = "Platform not configured"]
  ELSE [fr EXCEPT !.pc = "generating",
                  !.gens = @ \o [j \in 1..(Len(plats) - fr.k + 1) |->
                                   [ platform |-> plats[fr.k + j - 1],
                                     state |-> "pending", error |-> "none",
                                     content |-> 0 ]]]

\* top of one iteration of `for (const platform of agent.platforms)`, fr.k
\* being the position in the list: the loop ends, or the adapter lookup
\* throws, or generateContent is called and awaited
EnterIteration(fr, plats, adapters) ==
  IF fr.k > Len(plats) THEN [fr EXCEPT !.pc = "resolved"]
  ELSE IF plats[fr.k] \notin DOMAIN adapters
  THEN [fr EXCEPT !.pc = "rejected", !.error = "Platform not configured"]
  ELSE [fr EXCEPT !.pc = "generating",
                  !.gens = Append(@, [ platform |-> plats[fr.k], state |-> "pending",
                                       error |-> "none", content |-> 0 ])]

\* a catch that logs without rethrowing: the loop goes on to the next platform
OnLoopErrorSwallowed(fr, error) ==
  EnterIteration([fr EXCEPT !.k = @ + 1, !.awaiting = 0],
                 agents[fr.agentId].platforms, platforms)

\* catch (error) { this.logger.error(...); throw error }
OnLoopError(fr, error) == [fr EXCEPT !.pc = "rejected", !.error = error]

\* a processor that returns quietly when the agent is missing
ProcessorStartReturns(fr, agts, plats) ==
  IF fr.agentId \notin DOMAIN agts
  THEN [fr EXCEPT !.pc = "resolved"]
  ELSE EnterIteration(fr, agts[fr.agentId].platforms, plats)

\* the processor up to its first await: the agent lookup throws for an
\* unknown job.data.agentId, otherwise the platform loop is entered
ProcessorStart(fr, agts, plats) ==
  IF fr.agentId \notin DOMAIN agts
  THEN [fr EXCEPT !.pc = "rejected", !.error = "Agent not found"]
  ELSE EnterIteration(fr, agts[fr.agentId].platforms, plats)

\* the queue backend starts the processor with job.data.agentId = a: the
\* queue is processing, and the job is one this runtime added or, for an id
\* the runtime does not know, one the backend kept from an earlier process
JobFire(a) ==
  /\ Len(firings) < MaxFirings
  /\ lifecycle.queue = "running"
  /\ a \in DOMAIN agents => JobsIn(queue, a) # {}
  /\ LET fr == [ agentId |-> a, k |-> 1, pc |-> "start", error |-> "none",
                 gens |-> <<>>, published |-> <<>>, awaiting |-> 0 ]
     IN  firings' = Append(firings, ProcessorStart(fr, agents, platforms))
  /\ UNCHANGED <<generator, lifecycle, lastBound, busVars, agents, platforms, queue, posts, regCalls>>

\* generateContent of firing f rejects with error e
GenFail(f, e) ==
  /\ f \in 1..Len(firings)
  /\ firings[f].pc = "generating"
  /\ LET fr == firings[f]
         gens == [fr.gens EXCEPT ![Len(fr.gens)].state = "failed",
                                 ![Len(fr.gens)].error = e]
     IN  firings' = [firings EXCEPT ![f] = OnLoopError([fr EXCEPT !.gens = gens], e)]
  /\ UNCHANGED <<generator, lifecycle, lastBound, busVars, agents, platforms, queue, posts, regCalls>>

\* generateContent of firing f resolves with content c: the processor
\* publishes CONTENT_CREATED and awaits the publish
GenOk(f, c) ==
  /\ f \in 1..Len(firings)
  /\ firings[f].pc = "generating"
  /\ LET fr == firings[f]
         agent == agents[fr.agentId]
         gens == [fr.gens EXCEPT ![Len(fr.gens)].state = "ok",
                                 ![Len(fr.gens)].content = c]
         ev == ContentCreatedEvent(NextStamp(pubs), agent, agent.platforms[fr.k], c)
         pub == publish(handlers, ev, agents, platforms, <<"job", f>>,
                        Subscribed(CONTENT_CREATED))
     IN  /\ pubs' = Append(pubs, pub)
         /\ posts' = PostsAfterPublish(posts, pub, Len(pubs) + 1, platforms)
         /\ firings' = [firings EXCEPT ![f] =
                          [fr EXCEPT !.gens = gens, !.pc = "publishing",
                                     !.published = Append(@, Len(pubs) + 1),
                                     !.awaiting = Len(pubs) + 1]]
  /\ UNCHANGED <<generator, lifecycle, lastBound, handlers, lastCall, raised, agents, platforms, queue, regCalls>>

\* a processor that fails when the post for the event it awaited has failed
JobResumeRethrowsPostFailure(f) ==
  /\ f \in 1..Len(firings)
  /\ firings[f].pc = "publishing"
  /\ pubs[firings[f].awaiting].status # "pending"
  /\ LET fr == firings[f]
     IN  firings' = [firings EXCEPT ![f] =
           IF \/ pubs[fr.awaiting].status = "rejected"
              \/ \E q \in 1..Len(posts) :
                   posts[q].pub = fr.awaiting /\ posts[q].state = "failed"
           THEN OnLoopError(fr, "Publishing failed")
           ELSE EnterIteration([fr EXCEPT !.k = @ + 1, !.awaiting = 0],
                               agents[fr.agentId].platforms, platforms)]
  /\ UNCHANGED <<generator, lifecycle, lastBound, busVars, agents, platforms, queue, posts, regCalls>>

\* a processor that does not await the publish of CONTENT_CREATED
JobResumeNoAwait(f) ==
  /\ f \in 1..Len(firings)
  /\ firings[f].pc = "publishing"
  /\ LET fr == firings[f]
     IN  firings' = [firings EXCEPT ![f] =
           IF pubs[fr.awaiting].status = "rejected"
           THEN OnLoopError(fr, "publish rejected")
           ELSE EnterIteration([fr EXCEPT !.k = @ + 1, !.awaiting = 0],
                               agents[fr.agentId].platforms, platforms)]
  /\ UNCHANGED <<generator, lifecycle, lastBound, busVars, agents, platforms, queue, posts, regCalls>>

\* the publish awaited by firing f has settled: next iteration of the loop
JobResume(f) ==
  /\ f \in 1..Len(firings)
  /\ firings[f].pc = "publishing"
  /\ pubs[firings[f].awaiting].status # "pending"
  /\ LET fr == firings[f]
     IN  firings' = [firings EXCEPT ![f] =
           IF pubs[fr.awaiting].status = "rejected"
           THEN OnLoopError(fr, "publish rejected")
           ELSE EnterIteration([fr EXCEPT !.k = @ + 1, !.awaiting = 0],
                               agents[fr.agentId].platforms, platforms)]
  /\ UNCHANGED <<generator, lifecycle, lastBound, busVars, agents, platforms, queue, posts, regCalls>>

\* an event literal built anew instead of spread from the received event
ContentPublishedEventRebuilt(event, stamp) ==
  Event(stamp, CONTENT_PUBLISHED, event.agentId, event.payload,
        event.metadata.domain, event.metadata.platform)

\* { ...event, type: EventType.CONTENT_PUBLISHED }
ContentPublishedEvent(event, stamp) == [event EXCEPT !.type = CONTENT_PUBLISHED]

\* a handler that publishes whether or not post succeeded
PublishedAfterPostAlways(event, result, stamp) ==
  <<ContentPublishedEvent(event, stamp)>>

\* the events the CONTENT_CREATED handler publishes once adapter.post has
\* settled: the re-typed event after success, nothing from the catch block
PublishedAfterPost(event, result, stamp) ==
  IF result = "ok" THEN <<ContentPublishedEvent(event, stamp)>> ELSE <<>>

\* adapter.post of call i settles with result "ok" or "failed": the handler
\* publishes what it publishes (not awaited) and its own promise is fulfilled,
\* the rejection of post having been caught and logged
PostSettle(i, result) ==
  /\ i \in 1..Len(posts)
  /\ posts[i].state = "pending"
  /\ LET src == posts[i].pub
         evs == PublishedAfterPost(pubs[src].event, result, NextStamp(pubs))
         settled == [pubs EXCEPT ![src] = SettleHandler(@, RuntimeHandler, "ok")]
         po == [posts EXCEPT ![i].state = result]
     IN  IF evs = <<>>
         THEN pubs' = settled /\ posts' = po
         ELSE LET pub == publish(handlers, evs[1], agents, platforms,
                                 <<"handler", src>>, Subscribed(evs[1].type))
              IN  /\ pubs' = Append(settled, pub)
                  /\ posts' = PostsAfterPublish(po, pub, Len(pubs) + 1, platforms)
  /\ UNCHANGED <<generator, lifecycle, lastBound, handlers, lastCall, raised, agents, platforms,
                 queue, firings, regCalls>>

\* adapter.post of call i resolves
PostOk(i) == PostSettle(i, "ok")

\* adapter.post of call i rejects
PostFail(i) == PostSettle(i, "failed")

\* the state after `new AgentRuntime(config, agentFactory)` on a fresh bus:
\* setupEventHandlers has subscribed the CONTENT_CREATED handler
\* the bus and the runtime after the AgentRuntime constructor
InitOrchestration ==
  /\ handlers = subscribe(EmptyMap, CONTENT_CREATED, RuntimeHandler)
  /\ pubs = <<>>
  /\ lastCall = [x \in EventType \X (UserHandlers \cup {RuntimeHandler}) |->
                   IF x = <<CONTENT_CREATED, RuntimeHandler>> THEN "subscribe"
                   ELSE "none"]
  /\ raised = FALSE
  /\ agents = EmptyMap
  /\ platforms = EmptyMap
  /\ queue = <<>>
  /\ firings = <<>>
  /\ posts = <<>>
  /\ regCalls = <<>>
  /\ lastBound = EmptyMap
  /\ lifecycle = NewLifecycle

Init ==
  /\ InitOrchestration
  /\ generator = NewGenerator

Next ==
  \/ \E d \in Domains, pl \in PlatformLists : RegisterAgent(d, pl)
  \/ \E p \in Platform, ad \in Adapters : RegisterPlatform(p, ad)
  \/ \E a \in AgentIds : JobFire(a)
  \/ \E f \in 1..Len(firings), e \in GenErrors : GenFail(f, e)
  \/ \E f \in 1..Len(firings), c \in Contents : GenOk(f, c)
  \/ \E f \in 1..Len(firings) : JobResume(f)
  \/ \E i \in 1..Len(posts) : PostOk(i)
  \/ \E i \in 1..Len(posts) : PostFail(i)

Spec == Init /\ [][Next]_vars

(* ------------------- delivery of CONTENT_CREATED events ----------------- *)
\* the publish calls made by code outside the runtime
ExternalPubs == {p \in 1..Len(pubs) : pubs[p].source = <<"external", 0>>}

\* the adapters handed to registerPlatform when bindings are replaced
RebindAdapters == 1..MaxRebindAdapters

\* code that shares the bus publishes a CONTENT_CREATED event naming agent a
\* and platform p with payload c: the runtime's handler receives it
PublishCreated(a, p, c) ==
  /\ Cardinality(ExternalPubs) < MaxPublishes
  /\ LET ev == Event(NextStamp(pubs), CONTENT_CREATED, a, c, "crypto", p)
         pub == publish(handlers, ev, agents, platforms, <<"external", 0>>,
                        Subscribed(CONTENT_CREATED))
     IN  /\ pubs' = Append(pubs, pub)
         /\ posts' = PostsAfterPublish(posts, pub, Len(pubs) + 1, platforms)
  /\ UNCHANGED <<generator, lifecycle, lastBound, handlers, lastCall, raised, agents, platforms,
                 queue, firings, regCalls>>

\* the platforms events are delivered for
DispatchPlatforms == {TWITTER, TELEGRAM}

NextDispatch ==
  \/ \E p \in DispatchPlatforms : RegisterAgent("crypto", <<p>>)
  \/ \E p \in DispatchPlatforms, ad \in RebindAdapters : RegisterPlatform(p, ad)
  \/ \E a \in AgentIds, p \in DispatchPlatforms, c \in Contents : PublishCreated(a, p, c)
  \/ \E i \in 1..Len(posts) : PostOk(i)
  \/ \E i \in 1..Len(posts) : PostFail(i)

SpecDispatch == Init /\ [][NextDispatch]_vars

(* ------------------------------ lifecycle ------------------------------- *)
\* a startAgent that adds nothing to the queue
startAgentNoJob(q, id) == q

\* startAgent(id): the recurring job of agent id is added to the queue
startAgent(q, id) ==
  Append(q, [ name |-> "generate-content", data |-> [agentId |-> id],
              opts |-> [repeat |-> [every |-> RepeatEvery]] ])

\* a stopAgent that empties the queue
stopAgentRemovesAll(q, id) == <<>>

\* stopAgent(id): the pending jobs whose data.agentId is id are removed
stopAgent(q, id) ==
  LET Others(job) == job.data.agentId # id
  IN  SelectSeq(q, Others)

StartAgent(id) ==
  /\ id \in DOMAIN agents
  /\ Len(lifecycle.agentCall[id]) <= MaxAgentCalls
  /\ queue' = startAgent(queue, id)
  /\ lifecycle' = [lifecycle EXCEPT !.agentCall[id] = Append(@, "startAgent")]
  /\ UNCHANGED <<generator, lastBound, busVars, agents, platforms, firings, posts, regCalls>>

StopAgent(id) ==
  /\ id \in DOMAIN agents
  /\ Len(lifecycle.agentCall[id]) <= MaxAgentCalls
  /\ queue' = stopAgent(queue, id)
  /\ lifecycle' = [lifecycle EXCEPT !.agentCall[id] = Append(@, "stopAgent")]
  /\ UNCHANGED <<generator, lastBound, busVars, agents, platforms, firings, posts, regCalls>>

\* stop() up to its first await: contentQueue.pause() has been called
stopCalled(lc) == [lc EXCEPT !.stop = "pausing", !.log = Append(@, "pause")]

\* a stop() that returns without pausing or closing the queue
stopContinueNoShutdown(lc, pubCount) ==
  [lc EXCEPT !.stop = "resolved", !.log = Append(@, "resolved")]

\* a stop() that quits Redis before it closes the queue
stopContinueQuitFirst(lc, pubCount) ==
  IF lc.stop = "pausing"
  THEN [lc EXCEPT !.queue = "paused", !.stop = "closing", !.pubsAtStop = pubCount,
                  !.log = @ \o <<"pause done", "quit">>]
  ELSE IF lc.stop = "closing"
  THEN [lc EXCEPT !.redis = "closed", !.stop = "quitting",
                  !.log = @ \o <<"quit done", "close">>]
  ELSE [lc EXCEPT !.queue = "closed", !.stop = "resolved",
                  !.log = @ \o <<"close done", "resolved">>]

\* stop() after the call it awaits has completed: pause() is followed by
\* close(), close() by redis.quit(), and quit() by the return
stopContinue(lc, pubCount) ==
  IF lc.stop = "pausing"
  THEN [lc EXCEPT !.queue = "paused", !.stop = "closing", !.pubsAtStop = pubCount,
                  !.log = @ \o <<"pause done", "close">>]
  ELSE IF lc.stop = "closing"
  THEN [lc EXCEPT !.queue = "closed", !.stop = "quitting",
                  !.log = @ \o <<"close done", "quit">>]
  ELSE [lc EXCEPT !.redis = "closed", !.stop = "resolved",
                  !.log = @ \o <<"quit done", "resolved">>]

\* a start() that leaves the queue as it is
startNoResume(lc) == [lc EXCEPT !.resumes = @ + 1]

\* start(): contentQueue.resume() lets a paused queue process jobs again;
\* a closed queue stays closed
start(lc) ==
  [lc EXCEPT !.resumes = @ + 1,
             !.queue = IF @ = "paused" THEN "running" ELSE @]

Stop ==
  /\ lifecycle.stop = "idle"
  /\ lifecycle' = stopCalled(lifecycle)
  /\ UNCHANGED <<generator, lastBound, busVars, agents, platforms, queue, firings, posts, regCalls>>

StopContinue ==
  /\ lifecycle.stop \in {"pausing", "closing", "quitting"}
  /\ lifecycle' = stopContinue(lifecycle, Len(pubs))
  /\ UNCHANGED <<generator, lastBound, busVars, agents, platforms, queue, firings, posts, regCalls>>

Start ==
  /\ lifecycle.resumes < MaxStarts
  /\ lifecycle' = start(lifecycle)
  /\ UNCHANGED <<generator, lastBound, busVars, agents, platforms, queue, firings, posts, regCalls>>

NextLife ==
  \/ RegisterAgent("crypto", <<TWITTER>>)
  \/ RegisterPlatform(TWITTER, 1)
  \/ \E a \in AgentIds : StartAgent(a)
  \/ \E a \in AgentIds : StopAgent(a)
  \/ Stop
  \/ StopContinue
  \/ Start
  \/ \E a \in AgentIds : JobFire(a)
  \/ \E f \in 1..Len(firings), e \in GenErrors : GenFail(f, e)
  \/ \E f \in 1..Len(firings), c \in Contents : GenOk(f, c)
  \/ \E f \in 1..Len(firings) : JobResume(f)
  \/ \E i \in 1..Len(posts) : PostOk(i)
  \/ \E i \in 1..Len(posts) : PostFail(i)

SpecLife == Init /\ [][NextLife]_vars

(* ------------------------ events after stop() -------------------------- *)
\* code that shares the bus publishes a CONTENT_CREATED event after stop()
\* has returned
PublishAfterStop(a, p, c) ==
  /\ lifecycle.stop = "resolved"
  /\ PublishCreated(a, p, c)

NextStopped ==
  \/ RegisterAgent("crypto", <<TWITTER>>)
  \/ \E p \in DispatchPlatforms, ad \in RebindAdapters : RegisterPlatform(p, ad)
  \/ Stop
  \/ StopContinue
  \/ \E a \in AgentIds, p \in DispatchPlatforms, c \in Contents : PublishAfterStop(a, p, c)
  \/ \E i \in 1..Len(posts) : PostOk(i)
  \/ \E i \in 1..Len(posts) : PostFail(i)

SpecStopped == Init /\ [][NextStopped]_vars

(* --------------------------- ContentGenerator --------------------------- *)
\* an optional value (undefined, null or a missing property) is a sequence
\* of length 0, a present value v is <<v>>
None == <<>>
Some(v) == <<v>>

\* new Error(message), and the errors the JavaScript runtime throws
Error(message) == [ name |-> "Error", message |-> message ]
TypeError == [ name |-> "TypeError", message |-> "Cannot read properties of undefined" ]
SyntaxError == [ name |-> "SyntaxError", message |-> "Unexpected token" ]

\* `Template ${id} not found`
TemplateNotFound(id) == Error("Template " \o id \o " not found")

\* errors a call of openai.chat.completions.create rejects with
EngineErrors == { Error("Generation failed"), Error("Rate limit"), SyntaxError }

\* strings over a small alphabet, as sequences of characters
TextChars == {"a", "b"}
Texts == SeqsUpTo(TextChars, MaxLength + 1)
\* the texts of the variations array: one within every limit, one over it
VariationTexts == { <<"a">>, [i \in 1..(MaxLength + 1) |-> "a"] }
VariationLists == SeqsUpTo(VariationTexts, MaxVariations)
\* the numbers of metadata.performance
PerformanceValues == {0, 100, 150}
Performances ==
  [ expectedEngagement : PerformanceValues, confidenceScore : PerformanceValues ]

\* the values JSON.parse can return for the engine's text: something that
\* is not an object with properties, or an object whose content, content.text,
\* variations, metadata and metadata.performance may each be missing
JsonValues ==
  { [ object |-> FALSE ] } \cup
  [ object : {TRUE},
    content : {None} \cup {Some([ text |-> None ])}
                \cup {Some([ text |-> Some(t) ]) : t \in Texts},
    variations : {None} \cup {Some(l) : l \in VariationLists},
    metadata : {None} \cup {Some([ performance |-> None ])}
                 \cup {Some([ performance |-> Some(p) ]) : p \in Performances} ]

\* response.choices[0]?.message?.content: missing or empty, text that is
\* not JSON, or the text of a JSON value
EngineContents ==
  { [ kind |-> "empty" ], [ kind |-> "text" ] } \cup
  { [ kind |-> "json", value |-> j ] : j \in JsonValues }

\* config.templates of the constructor: one template with its length limit
ConfigTemplates(maxLength) ==
  [ id \in {"news-update"} |->
      [ id |-> id, prompt |-> "Create news about {topic}",
        format |-> [ maxLength |-> maxLength ] ] ]

\* the templateId arguments of generateContent
TemplateIds == {"news-update", "invalid"}
\* params.variables
Variables == [ topic |-> "AI technology" ]

(* how a generateContent call ends *)
Rejected(error) == [ state |-> "rejected", error |-> error ]
Returned(value) == [ state |-> "returned", value |-> value ]

(* generateContent(params: GenerationParams) *)
\* a lookup that falls back to the registered template instead of throwing
getTemplateFallsBack(templates, id) ==
  IF id \in DOMAIN templates THEN Returned(templates[id])
  ELSE Returned(templates[CHOOSE k \in DOMAIN templates : TRUE])

\* getTemplate(id): the template, or the error it throws
getTemplate(templates, id) ==
  IF id \in DOMAIN templates THEN Returned(templates[id])
  ELSE Rejected(TemplateNotFound(id))

\* JSON.parse(content) of a non-empty string
JSONParse(content) ==
  IF content.kind = "json" THEN Returned(content.value) ELSE Rejected(SyntaxError)

\* a validation without the metadata check
ValidateResponseNoMetadataCheck(result, template, params) ==
  IF \/ ~result.object
     \/ result.content = None
     \/ result.content[1].text = None
  THEN Rejected(TypeError)
  ELSE IF Len(result.content[1].text[1]) > template.format.maxLength
  THEN Rejected(Error("Content exceeds maximum length"))
  ELSE IF result.metadata = None
  THEN Rejected(TypeError)
  ELSE Returned([ content |-> result.content[1],
                  variations |-> IF result.variations = None THEN <<>>
                                 ELSE result.variations[1],
                  metadata |-> [ template |-> template.id,
                                 generationParams |-> params.variables,
                                 performance |-> result.metadata[1].performance ] ])

\* a length check that rejects a text of exactly maxLength
ValidateResponseStrict(result, template, params) ==
  IF \/ ~result.object
     \/ result.content = None
     \/ result.content[1].text = None
  THEN Rejected(TypeError)
  ELSE IF Len(result.content[1].text[1]) >= template.format.maxLength
  THEN Rejected(Error("Content exceeds maximum length"))
  ELSE IF result.metadata = None \/ result.metadata[1].performance = None
  THEN Rejected(Error("Missing required metadata"))
  ELSE Returned([ content |-> result.content[1],
                  variations |-> IF result.variations = None THEN <<>>
                                 ELSE result.variations[1],
                  metadata |-> [ template |-> template.id,
                                 generationParams |-> params.variables,
                                 performance |-> result.metadata[1].performance ] ])

\* the body of the try block after JSON.parse: reading result.content.text
\* of a value without it throws a TypeError; then the length check, the
\* metadata check and the returned object
ValidateResponse(result, template, params) ==
  IF \/ ~result.object
     \/ result.content = None
     \/ result.content[1].text = None
  THEN Rejected(TypeError)
  ELSE IF Len(result.content[1].text[1]) > template.format.maxLength
  THEN Rejected(Error("Content exceeds maximum length"))
  ELSE IF result.metadata = None \/ result.metadata[1].performance = None
  THEN Rejected(Error("Missing required metadata"))
  ELSE Returned([ content |-> result.content[1],
                  variations |-> IF result.variations = None THEN <<>>
                                 ELSE result.variations[1],
                  metadata |-> [ template |-> template.id,
                                 generationParams |-> params.variables,
                                 performance |-> result.metadata[1].performance ] ])

\* a catch block that rethrows whatever it caught
CatchBlockRethrows(outcome) == outcome

\* catch (error) { if (error instanceof SyntaxError) throw new
\* Error('Invalid response format'); throw error }
CatchBlock(outcome) ==
  IF outcome.state = "rejected" /\ outcome.error.name = "SyntaxError"
  THEN Rejected(Error("Invalid response format"))
  ELSE outcome

\* generateContent after the engine call fulfilled with content
AfterCompletion(content, template, params) ==
  IF content.kind = "empty" THEN Rejected(Error("No content generated"))
  ELSE LET parsed == JSONParse(content)
       IN  CatchBlock(IF parsed.state = "rejected" THEN parsed
                      ELSE ValidateResponse(parsed.value, template, params))

\* an engine failure replaced by a generic error
OnEngineErrorWrapped(error) == Rejected(Error("Content generation failed"))

\* the awaited engine call rejects outside any try block
OnEngineError(error) == Rejected(error)

\* one call of openai.chat.completions.create
EngineCall(purpose, index) ==
  [ purpose |-> purpose, index |-> index, state |-> "pending", error |-> None ]

\* the variables the generator leaves alone
orchestrationVars ==
  <<handlers, pubs, lastCall, raised, agents, platforms, queue, firings, posts,
    regCalls, lastBound, lifecycle>>

\* generateContent({ templateId: id, variables, platforms }) up to its await
GenerateContent(id) ==
  /\ Len(generator.calls) < MaxGenCalls
  /\ LET params == [ templateId |-> id, variables |-> Variables ]
         found == getTemplate(generator.templates, id)
         call == IF found.state = "rejected"
                 THEN [ variant |-> "params", params |-> params, template |-> None,
                        engine |-> <<>>, content |-> None, outcome |-> Some(found) ]
                 ELSE [ variant |-> "params", params |-> params,
                        template |-> Some(found.value),
                        engine |-> <<EngineCall("content", 0)>>, content |-> None,
                        outcome |-> None ]
     IN  generator' = [generator EXCEPT !.calls = Append(@, call)]
  /\ UNCHANGED orchestrationVars

\* the engine call of generateContent call c rejects with error e
EngineReject(c, e) ==
  /\ c \in 1..Len(generator.calls)
  /\ generator.calls[c].variant = "params"
  /\ generator.calls[c].outcome = None
  /\ generator' = [generator EXCEPT
                     !.calls[c].engine[1].state = "rejected",
                     !.calls[c].engine[1].error = Some(e),
                     !.calls[c].outcome = Some(OnEngineError(e))]
  /\ UNCHANGED orchestrationVars

\* the engine call of generateContent call c fulfils with content
EngineRespond(c, content) ==
  /\ c \in 1..Len(generator.calls)
  /\ generator.calls[c].variant = "params"
  /\ generator.calls[c].outcome = None
  /\ LET call == generator.calls[c]
     IN  generator' = [generator EXCEPT
           !.calls[c].engine[1].state = "fulfilled",
           !.calls[c].content = Some(content),
           !.calls[c].outcome =
              Some(AfterCompletion(content, call.template[1], call.params))]
  /\ UNCHANGED orchestrationVars

(* generateContent(request: ContentRequest) *)
\* initializeTemplates(): the templates every generator of this variant has
DefaultTemplates ==
  [ id \in {"news-update", "insight-share", "trend-analysis"} |->
      [ id |-> id,
        format |-> [ maxLength |-> IF id = "news-update" THEN 280
                                   ELSE IF id = "insight-share" THEN 560 ELSE 800 ] ] ]

\* request.template.id
RequestTemplateIds == {"news-update", "invalid-template"}
\* request.platforms
RequestPlatformLists == SeqsUpTo({TWITTER, TELEGRAM}, MaxRequestPlatforms)
\* the text of a completion for the base content or a variation; the empty
\* sequence stands for a missing, null or empty content
CompletionTexts == { <<>>, <<"a">> }
\* the text of the completion of the performance analysis
AnalysisChars == {"0", "1", "5", "x"}
AnalysisTexts == SeqsUpTo(AnalysisChars, MaxAnalysisLen)

DigitValue == [ ch \in {"0", "1", "5"} |-> IF ch = "0" THEN 0 ELSE IF ch = "1" THEN 1 ELSE 5 ]
IsDigit(ch) == ch \in DOMAIN DigitValue

\* Number(s) of a string of digits
RECURSIVE Number(_)
Number(digits) ==
  IF digits = <<>> THEN 0
  ELSE 10 * Number(SubSeq(digits, 1, Len(digits) - 1)) + DigitValue[digits[Len(digits)]]

\* text.match(/\d+/g): the maximal runs of digits from position i on, left
\* to right, run being the digits read since the last non-digit
RECURSIVE MatchDigits(_, _, _)
MatchDigits(text, i, run) ==
  IF i > Len(text) THEN (IF run = <<>> THEN <<>> ELSE <<run>>)
  ELSE IF IsDigit(text[i]) THEN MatchDigits(text, i + 1, Append(run, text[i]))
  ELSE (IF run = <<>> THEN <<>> ELSE <<run>>) \o MatchDigits(text, i + 1, <<>>)

\* analysis.match(/\d+/g)?.map(Number) || [0, 0]
Scores(analysis) ==
  LET runs == MatchDigits(analysis, 1, <<>>)
  IN  IF runs = <<>> THEN <<0, 0>> ELSE [k \in 1..Len(runs) |-> Number(runs[k])]

\* scores[i] || 0, i counted from 1
ScoreOrZero(scores, i) == IF i <= Len(scores) /\ scores[i] # 0 THEN scores[i] ELSE 0

\* a parser that returns the two numbers the wrong way round
PerformanceOfSwapped(analysis) ==
  LET scores == Scores(analysis)
  IN  [ expectedEngagement |-> ScoreOrZero(scores, 2),
        confidenceScore |-> ScoreOrZero(scores, 1) ]

\* what analyzePerformance returns for a non-empty analysis text
PerformanceOf(analysis) ==
  LET scores == Scores(analysis)
  IN  [ expectedEngagement |-> ScoreOrZero(scores, 1),
        confidenceScore |-> ScoreOrZero(scores, 2) ]

\* the object one callback of generateVariations returns
Variation(text, base, platform) ==
  [ text |-> text,
    metadata |-> [ domain |-> base.metadata.domain, template |-> base.metadata.template,
                   platform |-> platform, originalContent |-> base.text ] ]

\* the object generateBaseContent returns
BaseContent(text, request) ==
  [ text |-> text,
    metadata |-> [ domain |-> request.domain, template |-> request.template.id ] ]

\* the object generateContent returns
ContentResponse(call, performance) ==
  [ content |-> call.base[1],
    variations |-> [i \in 1..Len(call.variations) |-> call.variations[i][1]],
    metadata |-> [ template |-> call.template[1].id,
                   generationParams |-> [ model |-> "gpt-4", domain |-> call.request.domain,
                                          platforms |-> call.request.platforms ],
                   performance |-> Some(performance) ] ]

\* catch (error) { this.logger.error(...); throw error }
LogAndRethrow(error) == Rejected(error)

\* the engine calls of generateVariations: platforms.map calls the callback
\* for every platform in turn, and each callback calls the engine at once
VariationCalls(plats) ==
  [i \in 1..Len(plats) |-> EngineCall("variation", i)]

\* a generateVariations that adapts the content for the first platform only
StartVariationsFirstOnly(call) ==
  LET n == IF call.request.platforms = <<>> THEN 0 ELSE 1
  IN  IF n = 0
      THEN [call EXCEPT !.engine = Append(@, EngineCall("performance", 0)),
                        !.log = Append(@, <<"start", Len(call.engine) + 1>>)]
      ELSE [call EXCEPT !.engine = @ \o VariationCalls(<<call.request.platforms[1]>>),
                        !.variations = <<None>>,
                        !.log = Append(@, <<"start", Len(call.engine) + 1>>)]

\* generateContent once the base content is there: generateVariations is
\* called; with no platform Promise.all([]) fulfils and analyzePerformance
\* is called
StartVariations(call) ==
  LET n == Len(call.request.platforms)
  IN  IF n = 0
      THEN [call EXCEPT !.engine = Append(@, EngineCall("performance", 0)),
                        !.log = Append(@, <<"start", Len(call.engine) + 1>>)]
      ELSE [call EXCEPT !.engine = @ \o VariationCalls(call.request.platforms),
                        !.variations = [i \in 1..n |-> None],
                        !.log = @ \o [i \in 1..n |-> <<"start", Len(call.engine) + i>>]]

\* Promise.all of generateVariations: when the last variation is there,
\* analyzePerformance is called
AfterVariation(call) ==
  IF \A i \in 1..Len(call.variations) : call.variations[i] # None
  THEN [call EXCEPT !.engine = Append(@, EngineCall("performance", 0)),
                    !.log = Append(@, <<"start", Len(call.engine) + 1>>)]
  ELSE call

\* this.templates.get(request.template.id), and the throw when it is missing
RequestTemplate(templates, id) ==
  IF id \in DOMAIN templates THEN Returned(templates[id])
  ELSE Rejected(TemplateNotFound(id))

\* generateContent(request) up to its first await: the template lookup, then
\* generateBaseContent builds the prompt and calls the engine
RequestContent(id, plats) ==
  /\ Len(generator.calls) < MaxGenCalls
  /\ LET request == [ domain |-> "crypto", template |-> [ id |-> id ], platforms |-> plats ]
         found == RequestTemplate(generator.defaults, id)
         blank == [ variant |-> "request", request |-> request, template |-> None,
                    engine |-> <<>>, log |-> <<>>, base |-> None, variations |-> <<>>,
                    analysis |-> None, outcome |-> None ]
         call == IF found.state = "rejected"
                 THEN [blank EXCEPT !.outcome = Some(found)]
                 ELSE [blank EXCEPT !.template = Some(found.value),
                                    !.engine = <<EngineCall("base", 0)>>,
                                    !.log = << <<"start", 1>> >>]
     IN  generator' = [generator EXCEPT !.calls = Append(@, call)]
  /\ UNCHANGED orchestrationVars

\* engine call k of generateContent call c is pending and has purpose
PendingEngineCall(c, k, purpose) ==
  /\ c \in 1..Len(generator.calls)
  /\ generator.calls[c].variant = "request"
  /\ k \in 1..Len(generator.calls[c].engine)
  /\ generator.calls[c].engine[k].purpose = purpose
  /\ generator.calls[c].engine[k].state = "pending"

\* engine call k of call has ended with state; log lists the starts and
\* ends of the engine calls in the order they happened
Ended(call, k, state) ==
  [call EXCEPT !.engine[k].state = state, !.log = Append(@, <<"end", k>>)]

\* the completion of generateBaseContent arrives with text
BaseRespond(c, text) ==
  /\ PendingEngineCall(c, 1, "base")
  /\ LET call == Ended(generator.calls[c], 1, "fulfilled")
     IN  generator' = [generator EXCEPT !.calls[c] =
           IF text = <<>>
           THEN [call EXCEPT !.outcome = Some(LogAndRethrow(Error("No content generated")))]
           ELSE StartVariations([call EXCEPT
                                   !.base = Some(BaseContent(text, call.request))])]
  /\ UNCHANGED orchestrationVars

\* the completion of one variation arrives with text; nothing follows when
\* generateContent has already rejected
VariationRespond(c, k, text) ==
  /\ PendingEngineCall(c, k, "variation")
  /\ LET call == Ended(generator.calls[c], k, "fulfilled")
         i == call.engine[k].index
     IN  generator' = [generator EXCEPT !.calls[c] =
           IF call.outcome # None THEN call
           ELSE IF text = <<>>
           THEN [call EXCEPT !.outcome = Some(LogAndRethrow(Error("No variation generated")))]
           ELSE AfterVariation([call EXCEPT !.variations[i] =
                  Some(Variation(text, call.base[1], call.request.platforms[i]))])]
  /\ UNCHANGED orchestrationVars

\* the completion of analyzePerformance arrives with the analysis text
PerformanceRespond(c, k, analysis) ==
  /\ PendingEngineCall(c, k, "performance")
  /\ LET call == [Ended(generator.calls[c], k, "fulfilled") EXCEPT
                    !.analysis = Some(analysis)]
     IN  generator' = [generator EXCEPT !.calls[c] =
           IF call.outcome # None THEN call
           ELSE IF analysis = <<>>
           THEN [call EXCEPT !.outcome = Some(LogAndRethrow(Error("No analysis generated")))]
           ELSE [call EXCEPT !.outcome =
                   Some(Returned(ContentResponse(call, PerformanceOf(analysis))))]]
  /\ UNCHANGED orchestrationVars

\* engine call k of generateContent call c rejects with error e
RequestEngineReject(c, k, e) ==
  /\ c \in 1..Len(generator.calls)
  /\ generator.calls[c].variant = "request"
  /\ k \in 1..Len(generator.calls[c].engine)
  /\ generator.calls[c].engine[k].state = "pending"
  /\ LET call == [Ended(generator.calls[c], k, "rejected") EXCEPT
                    !.engine[k].error = Some(e)]
     IN  generator' = [generator EXCEPT !.calls[c] =
           IF call.outcome # None THEN call
           ELSE [call EXCEPT !.outcome = Some(LogAndRethrow(e))]]
  /\ UNCHANGED orchestrationVars

\* both generators after construction
InitGenerator ==
  /\ InitOrchestration
  /\ \E m \in 1..MaxLength :
       generator = [ templates |-> ConfigTemplates(m), defaults |-> DefaultTemplates,
                     calls |-> <<>> ]

NextGenerator ==
  \/ \E id \in TemplateIds : GenerateContent(id)
  \/ \E c \in 1..Len(generator.calls), e \in EngineErrors : EngineReject(c, e)
  \/ \E c \in 1..Len(generator.calls), content \in EngineContents : EngineRespond(c, content)
  \/ \E id \in RequestTemplateIds, pl \in RequestPlatformLists : RequestContent(id, pl)
  \/ \E c \in 1..Len(generator.calls), t \in CompletionTexts : BaseRespond(c, t)
  \/ \E c \in 1..Len(generator.calls), k \in 1..(MaxRequestPlatforms + 2),
        t \in CompletionTexts : VariationRespond(c, k, t)
  \/ \E c \in 1..Len(generator.calls), k \in 1..(MaxRequestPlatforms + 2),
        t \in AnalysisTexts : PerformanceRespond(c, k, t)
  \/ \E c \in 1..Len(generator.calls), k \in 1..(MaxRequestPlatforms + 2),
        e \in EngineErrors : RequestEngineReject(c, k, e)

SpecGenerator == InitGenerator /\ [][NextGenerator]_vars

(* ------------- registration with STRATEGY_UPDATED subscribers ---------- *)
NextRegistration ==
  \/ \E h \in UserHandlers : Subscribe(STRATEGY_UPDATED, h)
  \/ \E h \in UserHandlers : Unsubscribe(STRATEGY_UPDATED, h)
  \/ \E d \in Domains, p \in DispatchPlatforms : RegisterAgent(d, <<p>>)
  \/ \E p \in 1..Len(pubs), h \in UserHandlers, o \in {"ok", "throw"} :
       HandlerSettle(p, h, o)

SpecRegistration == Init /\ [][NextRegistration]_vars

(* -------------- handlers that call the bus while being invoked ---------- *)
\* what a handler does with the bus in its synchronous part, before its
\* first await: nothing, or a subscribe or unsubscribe call for handler g
\* under the type of the event it was invoked with
HandlerScripts ==
  { <<"none", 0>> } \cup { <<"subscribe", g>> : g \in UserHandlers }
    \cup { <<"unsubscribe", g>> : g \in UserHandlers }

\* the registry and the call history after a handler's script has run
RunScript(bus, type, script) ==
  IF script[1] = "subscribe"
  THEN [ handlers |-> subscribe(bus.handlers, type, script[2]),
         lastCall |-> [bus.lastCall EXCEPT ![<<type, script[2]>>] = "subscribe"] ]
  ELSE IF script[1] = "unsubscribe"
  THEN [ handlers |-> unsubscribe(bus.handlers, type, script[2]).handlers,
         lastCall |-> [bus.lastCall EXCEPT ![<<type, script[2]>>] = "unsubscribe"] ]
  ELSE bus

\* the set of the elements of a sequence
Range(s) == { s[i] : i \in 1..Len(s) }

\* the orders in which a Set can hold the handlers: a Set iterates in
\* insertion order, which the registry of the model does not keep, so a
\* delivery may take any order
DeliveryOrders ==
  { o \in SeqsUpTo(UserHandlers, MaxHandlers) :
      Len(o) = MaxHandlers /\ Range(o) = UserHandlers }

\* a delivery that walks the registered Set itself: a handler removed by an
\* earlier handler is skipped, one added by it is invoked
RemainingHandlersLive(snapshot, live, invoked) == live \ invoked

\* Array.from(handlers) copied the Set when publish was called: map goes
\* through the copy, whatever the handlers invoked so far did to the Set
RemainingHandlers(snapshot, live, invoked) == snapshot \ invoked

\* Array.from(handlers).map(async handler => ... handler(event) ...): the
\* handlers are invoked one after the other, each running its script before
\* the next is invoked; invoked lists them in the order of invocation
RECURSIVE Deliver(_, _, _, _, _, _)
Deliver(bus, type, snapshot, invoked, scripts, order) ==
  LET remaining == RemainingHandlers(snapshot, RegisteredHandlers(bus.handlers, type),
                                     Range(invoked))
  IN  IF remaining = {}
      THEN [ handlers |-> bus.handlers, lastCall |-> bus.lastCall, invoked |-> invoked ]
      ELSE LET first == CHOOSE i \in 1..Len(order) :
                          /\ order[i] \in remaining
                          /\ \A j \in 1..(i - 1) : order[j] \notin remaining
               h == order[first]
           IN  Deliver(RunScript(bus, type, scripts[h]), type, snapshot,
                       Append(invoked, h), scripts, order)

\* external code publishes an event of type t to handlers that run scripts;
\* scripts and order are history: what each invoked handler did, and the
\* order of invocation
PublishDelivering(t, scripts, order) ==
  /\ Len(pubs) < MaxPublishes
  /\ LET ev == Event(NextStamp(pubs), t, "external", "payload", "crypto", TWITTER)
         d == Deliver([ handlers |-> handlers, lastCall |-> lastCall ], t,
                      RegisteredHandlers(handlers, t), <<>>, scripts, order)
         outcome == [h \in Range(d.invoked) |-> "none"]
         pub == [ event |-> ev,
                  calls |-> [h \in Range(d.invoked) |->
                               Cardinality({i \in 1..Len(d.invoked) : d.invoked[i] = h})],
                  outcome |-> outcome,
                  status |-> PublishStatus(Wrappers(outcome)),
                  source |-> <<"external", 0>>,
                  registered |-> Subscribed(t),
                  scripts |-> [h \in Range(d.invoked) |-> scripts[h]],
                  order |-> d.invoked ]
     IN  /\ pubs' = Append(pubs, pub)
         /\ handlers' = d.handlers
         /\ lastCall' = d.lastCall
  /\ UNCHANGED <<raised, runtimeVars>>

NextDelivery ==
  \/ \E h \in UserHandlers : Subscribe(CONTENT_CREATED, h)
  \/ \E h \in UserHandlers : Unsubscribe(CONTENT_CREATED, h)
  \/ \E scripts \in [UserHandlers -> HandlerScripts], order \in DeliveryOrders :
       PublishDelivering(CONTENT_CREATED, scripts, order)

SpecDelivery == InitBus /\ [][NextDelivery]_vars

(* -------------------------- templates and prompts ----------------------- *)
\* strings put together from up to n of the pieces
RECURSIVE Concatenations(_, _)
Concatenations(pieces, n) ==
  IF n = 0 THEN {<<>>}
  ELSE LET shorter == Concatenations(pieces, n - 1)
       IN  shorter \cup {s \o p : s \in shorter, p \in pieces}

\* template.prompt: placeholders for the variables a and b, and other text
PromptPieces == { <<"{", "a", "}">>, <<"{", "b", "}">>, <<"x">> }
Prompts == Concatenations(PromptPieces, MaxPromptPieces)

\* the names and the values of request.variables; a value may itself look
\* like a placeholder or hold the replacement patterns $& and $$
VariableKeys == { <<"a">>, <<"b">> }
VariableValues == { <<"y">>, <<"{", "b", "}">>, <<"$", "&">>, <<"$", "$">> }

\* Object.entries(request.variables): the entries in insertion order, no
\* key twice
VariableEntries ==
  { entries \in SeqsUpTo(VariableKeys \X VariableValues, MaxVariables) :
      \A i, j \in 1..Len(entries) : i # j => entries[i][1] # entries[j][1] }

\* `{${key}}`
Placeholder(key) == <<"{">> \o key \o <<"}">>

\* str.indexOf(pattern): the first position at which pattern occurs in str,
\* 0 when it does not occur
Occurs(str, pattern, i) ==
  /\ i + Len(pattern) - 1 <= Len(str)
  /\ SubSeq(str, i, i + Len(pattern) - 1) = pattern
IndexOf(str, pattern) ==
  IF \E i \in 1..Len(str) : Occurs(str, pattern, i)
  THEN CHOOSE i \in 1..Len(str) :
         Occurs(str, pattern, i) /\ \A j \in 1..(i - 1) : ~Occurs(str, pattern, j)
  ELSE 0

\* the text String.prototype.replace puts in for the match, from position i
\* of the replacement string on: $$ stands for $, $& for the matched text
RECURSIVE GetSubstitution(_, _, _)
GetSubstitution(matched, replacement, i) ==
  IF i > Len(replacement) THEN <<>>
  ELSE IF replacement[i] = "$" /\ i < Len(replacement) /\ replacement[i + 1] = "$"
  THEN <<"$">> \o GetSubstitution(matched, replacement, i + 2)
  ELSE IF replacement[i] = "$" /\ i < Len(replacement) /\ replacement[i + 1] = "&"
  THEN matched \o GetSubstitution(matched, replacement, i + 2)
  ELSE <<replacement[i]>> \o GetSubstitution(matched, replacement, i + 1)

\* str.replace(pattern, replacement) with a string pattern: the first
\* occurrence is replaced, a string without the pattern is returned as it is
StringReplace(str, pattern, replacement) ==
  LET at == IndexOf(str, pattern)
  IN  IF at = 0 THEN str
      ELSE SubSeq(str, 1, at - 1) \o GetSubstitution(pattern, replacement, 1)
             \o SubSeq(str, at + Len(pattern), Len(str))

\* for (const [key, value] of Object.entries(request.variables))
\*   processedPrompt = processedPrompt.replace(`{${key}}`, value)
\* from entry i on
RECURSIVE ReplaceVariables(_, _, _)
ReplaceVariables(processedPrompt, entries, i) ==
  IF i > Len(entries) THEN processedPrompt
  ELSE ReplaceVariables(
         StringReplace(processedPrompt, Placeholder(entries[i][1]), entries[i][2]),
         entries, i + 1)

\* buildPrompt(request) for a request without affiliatePromotion and without
\* context: promptParts holds the processed prompt alone
buildPrompt(templates, request) ==
  IF request.template.id \notin DOMAIN templates
  THEN Rejected(TemplateNotFound(request.template.id))
  ELSE Returned(ReplaceVariables(templates[request.template.id].prompt,
                                 request.variables, 1))

\* a registration that forgets the templates registered before
registerTemplateAlone(templates, template) ==
  [ id \in {template.id} |-> template ]

\* registerTemplate(template): this.templates.set(template.id, template)
registerTemplate(templates, template) == MapSet(templates, template.id, template)

\* getTemplate(id) of the request-based generator: this.templates.get(id)
templatesGet(templates, id) == IF id \in DOMAIN templates THEN Some(templates[id]) ELSE None

\* the templates external code registers: the template of the tests with
\* one of the prompts, and a replacement for the default 'news-update'
RegisteredTemplates ==
  { [ id |-> "test-template", prompt |-> p, format |-> [ maxLength |-> 280 ] ] :
      p \in Prompts }
  \cup { [ id |-> "news-update", prompt |-> <<"x">>, format |-> [ maxLength |-> 100 ] ] }

\* request.template.id of the requests a prompt is built for
PromptTemplateIds == { "test-template", "invalid-template" }

\* generator.registerTemplate(template)
RegisterTemplate(template) ==
  /\ generator' = [generator EXCEPT !.defaults = registerTemplate(@, template)]
  /\ UNCHANGED orchestrationVars

\* generateBaseContent calls buildPrompt(request); built is the history of
\* these calls: the request, the prompt of its template at the call, and
\* what buildPrompt returned or threw
BuildPrompt(id, entries) ==
  /\ Len(generator.built) < MaxBuilds
  /\ LET request == [ domain |-> "crypto", template |-> [ id |-> id ],
                      variables |-> entries, platforms |-> <<>> ]
         found == templatesGet(generator.defaults, id)
     IN  generator' = [generator EXCEPT !.built = Append(@,
           [ request |-> request,
             prompt |-> IF found = None THEN None ELSE Some(found[1].prompt),
             result |-> buildPrompt(generator.defaults, request) ])]
  /\ UNCHANGED orchestrationVars

\* both generators after construction, no prompt built yet
InitTemplates ==
  /\ InitOrchestration
  /\ generator = [ templates |-> ConfigTemplates(MaxLength), defaults |-> DefaultTemplates,
                   calls |-> <<>>, built |-> <<>> ]

NextTemplates ==
  \/ \E template \in RegisteredTemplates : RegisterTemplate(template)
  \/ \E id \in PromptTemplateIds, entries \in VariableEntries : BuildPrompt(id, entries)
  \/ \E id \in TemplateIds : GenerateContent(id)
  \/ \E id \in RequestTemplateIds : RequestContent(id, <<>>)
  \/ \E c \in 1..Len(generator.calls), t \in CompletionTexts : BaseRespond(c, t)

SpecTemplates == InitTemplates /\ [][NextTemplates]_vars

(* ------------------------- EventBus properties ------------------------- *)
AllSettled(pub) == \A h \in DOMAIN pub.outcome : pub.outcome[h] # "none"

\* the publish call a step makes, if it makes one
PublishedBy(before, after) == after[Len(after)]
IsPublishStep(before, after) == Len(after) = Len(before) + 1

\* C1: whatever subset of the handlers registered under an event's type
\* throws, publish invokes every one of them exactly once, never rejects,
\* and is resolved once all of them have settled.
C1_HandlerFailuresIsolated ==
  \A p \in 1..Len(pubs) :
    /\ pubs[p].status # "rejected"
    /\ \A h \in pubs[p].registered :
         h \in DOMAIN pubs[p].calls /\ pubs[p].calls[h] = 1
    /\ AllSettled(pubs[p]) => pubs[p].status = "resolved"

\* a resolved publish to two handlers, one of which threw and one of which
\* completed
C1_Witness ==
  \E p \in 1..Len(pubs) :
    /\ pubs[p].status = "resolved"
    /\ \E h, g \in pubs[p].registered :
         pubs[p].outcome[h] = "throw" /\ pubs[p].outcome[g] = "ok"

\* C2: publish is resolved only when every handler it invoked has settled.
C2_ResolvesAfterAllSettled ==
  \A p \in 1..Len(pubs) :
    pubs[p].status = "resolved" =>
      \A h \in pubs[p].registered :
        h \in DOMAIN pubs[p].outcome /\ pubs[p].outcome[h] # "none"

\* a publish still pending although one of its two handlers has thrown
C2_Witness ==
  \E p \in 1..Len(pubs) :
    /\ pubs[p].status = "pending"
    /\ \E h, g \in DOMAIN pubs[p].outcome :
         pubs[p].outcome[h] = "throw" /\ pubs[p].outcome[g] = "none"

\* C3: a publish under a type nobody is subscribed to resolves at once,
\* invokes no handler, calls no adapter and leaves the registry as it was.
C3_PublishWithoutSubscribers ==
  [][ (IsPublishStep(pubs, pubs') /\ PublishedBy(pubs, pubs').registered = {}) =>
        /\ handlers' = handlers
        /\ DOMAIN PublishedBy(pubs, pubs').calls = {}
        /\ PublishedBy(pubs, pubs').status = "resolved"
        /\ posts' = posts ]_vars

\* an external publish made while its type had no subscriber, with the
\* type absent from the registry afterwards
C3_Witness ==
  \E p \in 1..Len(pubs) :
    /\ pubs[p].source = <<"external", 0>>
    /\ pubs[p].registered = {}
    /\ pubs[p].status = "resolved"
    /\ pubs[p].event.type \notin DOMAIN handlers

\* C4: unsubscribe never throws, changes nothing when the handler is not
\* registered under the type, and a second call changes nothing the first
\* left; every other registration survives both calls.
C4_UnsubscribeIdempotent ==
  /\ ~raised
  /\ \A t \in EventType, h \in UserHandlers :
       LET once == unsubscribe(handlers, t, h)
           twice == unsubscribe(once.handlers, t, h)
       IN  /\ ~once.threw /\ ~twice.threw
           /\ twice.handlers = once.handlers
           /\ h \notin Subscribed(t) => once.handlers = handlers
           /\ \A t2 \in EventType : \A g \in Subscribed(t2) :
                <<t2, g>> # <<t, h>> => g \in RegisteredHandlers(twice.handlers, t2)

\* a handler has been unsubscribed while another one stays registered
\* under the same type, and a type without registrations exists
C4_Witness ==
  \E t \in CoreTypes, h \in UserHandlers :
    /\ lastCall[<<t, h>>] = "unsubscribe"
    /\ Subscribed(t) # {}
    /\ \E t2 \in CoreTypes : t2 \notin DOMAIN handlers

\* C5: the registry never maps an event type to an empty handler set.
C5_NoEmptyHandlerSet ==
  \A t \in DOMAIN handlers : handlers[t] # {}

\* the only handler of a type has been unsubscribed
C5_Witness ==
  \E t \in CoreTypes :
    /\ t \notin DOMAIN handlers
    /\ \E h \in UserHandlers : lastCall[<<t, h>>] = "unsubscribe"

\* C6: a publish invokes no handler whose latest call under the event's
\* type was unsubscribe, and invokes every handler still subscribed.
C6_UnsubscribedNotInvoked ==
  [][ IsPublishStep(pubs, pubs') =>
        LET pub == PublishedBy(pubs, pubs')
        IN  \A h \in UserHandlers \cup {RuntimeHandler} :
              /\ lastCall[<<pub.event.type, h>>] = "unsubscribe"
                   => h \notin DOMAIN pub.calls
              /\ lastCall[<<pub.event.type, h>>] = "subscribe"
                   => h \in DOMAIN pub.calls ]_vars

\* two publishes of one type: the first invoked h and g, then h was
\* unsubscribed, and the second invoked g only
C6_Witness ==
  \E p, q \in 1..Len(pubs), h, g \in UserHandlers :
    /\ p < q /\ h # g
    /\ pubs[p].event.type = pubs[q].event.type
    /\ lastCall[<<pubs[q].event.type, h>>] = "unsubscribe"
    /\ h \in DOMAIN pubs[p].calls /\ g \in DOMAIN pubs[p].calls
    /\ h \notin DOMAIN pubs[q].calls /\ g \in DOMAIN pubs[q].calls

(* ----------------------- AgentRuntime properties ----------------------- *)
\* the publish calls that carry a STRATEGY_UPDATED event for agent id
StrategyEventsFor(id) ==
  {p \in 1..Len(pubs) : /\ pubs[p].event.type = STRATEGY_UPDATED
                        /\ pubs[p].event.agentId = id}

\* C7: when registerAgent has returned, exactly one STRATEGY_UPDATED event
\* carrying the id of the agent it created has been published, and no
\* STRATEGY_UPDATED event exists that no registerAgent call accounts for.
C7_OneStrategyUpdatedPerAgent ==
  /\ \A i \in 1..Len(regCalls) :
       Cardinality(StrategyEventsFor(regCalls[i].returned.id)) = 1
  /\ Cardinality({p \in 1..Len(pubs) : pubs[p].event.type = STRATEGY_UPDATED})
       = Len(regCalls)

\* two registerAgent calls have returned two different agents
C7_Witness ==
  /\ Len(regCalls) = 2
  /\ regCalls[1].returned.id # regCalls[2].returned.id
  /\ StrategyEventsFor(regCalls[2].returned.id) # {}

\* the jobs in the queue that carry agent id
JobsFor(id) ==
  {j \in 1..Len(queue) : /\ queue[j].name = "generate-content"
                         /\ queue[j].data.agentId = id}

\* C8: the agent registerAgent(domain, platforms) returned has that domain
\* and that platform list, getAgent finds it under its id, and the queue
\* holds exactly one 'generate-content' job for it, repeating every hour.
C8_RegisterAgentStoresAndSchedules ==
  \A i \in 1..Len(regCalls) :
    LET a == regCalls[i].returned
    IN  /\ a.domain = regCalls[i].domain
        /\ a.platforms = regCalls[i].platforms
        /\ getAgent(agents, a.id) = a
        /\ Cardinality(JobsFor(a.id)) = 1
        /\ \A j \in JobsFor(a.id) : queue[j].opts.repeat.every = 60 * 60 * 1000

\* registerAgent("gaming", [TWITTER, DISCORD]) has returned after another
\* registration
C8_Witness ==
  /\ Len(regCalls) = 2
  /\ regCalls[2].domain = "gaming"
  /\ regCalls[2].platforms = <<TWITTER, DISCORD>>
  /\ regCalls[1].domain = "crypto"

\* the publish calls made by firing f
PublishedByFiring(f) == {p \in 1..Len(pubs) : pubs[p].source = <<"job", f>>}

\* the adapter.post calls caused by events of firing f
PostsOfFiring(f) == {q \in 1..Len(posts) : posts[q].pub \in PublishedByFiring(f)}

\* C9: when generation fails for the platform at position i of a firing, the
\* firing is rejected with the generator's error, generation was started for
\* no later platform, and the firing's CONTENT_CREATED events and the posts
\* they caused are those of the i - 1 earlier platforms only.
C9_GenerationFailureAborts ==
  \A f \in 1..Len(firings) : \A i \in 1..Len(firings[f].gens) :
    firings[f].gens[i].state = "failed" =>
      LET fr == firings[f]
          plats == agents[fr.agentId].platforms
      IN  /\ fr.pc = "rejected"
          /\ fr.error = fr.gens[i].error
          /\ fr.error \in GenErrors
          /\ Len(fr.gens) = i
          /\ Cardinality(PublishedByFiring(f)) = i - 1
          /\ \A p \in PublishedByFiring(f) :
               /\ pubs[p].event.type = CONTENT_CREATED
               /\ \E j \in 1..(i - 1) :
                    fr.published[j] = p /\ pubs[p].event.metadata.platform = plats[j]
          /\ Cardinality(PostsOfFiring(f)) <= i - 1

\* platforms [TWITTER, DISCORD] with both adapters bound: generation for
\* TWITTER failed and the firing is over
C9_Witness ==
  \E f \in 1..Len(firings) :
    /\ firings[f].agentId \in DOMAIN agents
    /\ agents[firings[f].agentId].platforms = <<TWITTER, DISCORD>>
    /\ {TWITTER, DISCORD} \subseteq DOMAIN platforms
    /\ Len(firings[f].gens) = 1
    /\ firings[f].gens[1].state = "failed"
    /\ firings[f].pc = "rejected"

\* C10: a firing starts generation for its agent's platforms in list order,
\* and never starts one while an earlier one is still pending.
C10_PlatformsSequential ==
  \A f \in 1..Len(firings) :
    LET fr == firings[f]
    IN  \A i \in 1..Len(fr.gens) :
          /\ i <= Len(agents[fr.agentId].platforms)
          /\ fr.gens[i].platform = agents[fr.agentId].platforms[i]
          /\ i < Len(fr.gens) => fr.gens[i].state = "ok"
          /\ fr.gens[i].state = "pending" => fr.pc = "generating"

\* generation for the second of two different platforms is running after
\* the first one's content was published
C10_Witness ==
  \E f \in 1..Len(firings) :
    /\ Len(firings[f].gens) = 2
    /\ firings[f].gens[1].platform # firings[f].gens[2].platform
    /\ firings[f].gens[1].state = "ok"
    /\ firings[f].gens[2].state = "pending"

\* the publish calls the handler made for the event of publish call src
RepublishedFrom(src) == {p \in 1..Len(pubs) : pubs[p].source = <<"handler", src>>}

\* C11: when adapter.post rejects for a CONTENT_CREATED event, no
\* CONTENT_PUBLISHED event with that event's id exists, the handler's promise
\* is fulfilled so that the publish is not rejected, and post was called once
\* for that event.
C11_PostFailureIsolated ==
  \A q \in 1..Len(posts) :
    posts[q].state = "failed" =>
      LET src == posts[q].pub
      IN  /\ RepublishedFrom(src) = {}
          /\ \A p \in 1..Len(pubs) :
               pubs[p].event.type = CONTENT_PUBLISHED
                 => pubs[p].event.id # pubs[src].event.id
          /\ pubs[src].outcome[RuntimeHandler] = "ok"
          /\ pubs[src].status = "resolved"
          /\ Cardinality({r \in 1..Len(posts) : posts[r].pub = src}) = 1

\* a firing went on after the post for its first platform had failed
C11_Witness ==
  \E q \in 1..Len(posts), f \in 1..Len(firings) :
    /\ posts[q].state = "failed"
    /\ pubs[posts[q].pub].source = <<"job", f>>
    /\ firings[f].pc = "resolved"

\* every publish call a firing caused: its own and those its events' handler made
EventsOfFiring(f) ==
  PublishedByFiring(f) \cup
    {p \in 1..Len(pubs) : \E src \in PublishedByFiring(f) : pubs[p].source = <<"handler", src>>}

\* a firing that is over
Finished(fr) == fr.pc \in {"resolved", "rejected"}

\* C12 as stated: a finished firing of a registered agent one of whose
\* platforms has no adapter was rejected with the "not configured" error, and the only events
\* it produced are CONTENT_CREATED events.
C12_AsStated ==
  \A f \in 1..Len(firings) :
    LET fr == firings[f]
    IN  ( /\ Finished(fr)
          /\ fr.agentId \in DOMAIN agents
          /\ fr.error # "Agent not found"
          /\ \E i \in 1..Len(agents[fr.agentId].platforms) :
               agents[fr.agentId].platforms[i] \notin DOMAIN platforms )
        => /\ fr.pc = "rejected"
           /\ fr.error = "Platform not configured"
           /\ \A p \in EventsOfFiring(f) : pubs[p].event.type = CONTENT_CREATED

\* C12 (amended): generation is only ever started for a platform that has an
\* adapter, a firing resolves only when all its platforms have one, and a
\* firing rejected with "not configured" at position k of the list started
\* generation for exactly the k - 1 earlier platforms, all of which
\* succeeded; its events are their CONTENT_CREATED events and the
\* CONTENT_PUBLISHED events of their successful posts, nothing else.
C12_MissingAdapterRejects ==
  \A f \in 1..Len(firings) :
    LET fr == firings[f]
    IN  /\ \A i \in 1..Len(fr.gens) : fr.gens[i].platform \in DOMAIN platforms
        /\ (fr.pc = "resolved" /\ fr.agentId \in DOMAIN agents) =>
             \A i \in 1..Len(agents[fr.agentId].platforms) :
               agents[fr.agentId].platforms[i] \in DOMAIN platforms
        /\ fr.error = "Platform not configured" =>
             /\ fr.pc = "rejected"
             /\ Len(fr.gens) = fr.k - 1
             /\ \A i \in 1..Len(fr.gens) : fr.gens[i].state = "ok"
             /\ Cardinality(PublishedByFiring(f)) = fr.k - 1
             /\ \A p \in PublishedByFiring(f) :
                  /\ pubs[p].event.type = CONTENT_CREATED
                  /\ pubs[p].status = "resolved"
             /\ \A p \in EventsOfFiring(f) \ PublishedByFiring(f) :
                  /\ pubs[p].event.type = CONTENT_PUBLISHED
                  /\ \E q \in 1..Len(posts) :
                       posts[q].state = "ok" /\ pubs[p].source = <<"handler", posts[q].pub>>

\* a firing was rejected with "not configured" at its second platform after
\* the content of the first had been created and published
C12_Witness ==
  \E f \in 1..Len(firings) :
    /\ firings[f].error = "Platform not configured"
    /\ firings[f].k = 2
    /\ \E p \in EventsOfFiring(f) : pubs[p].event.type = CONTENT_PUBLISHED

\* C15: when a firing of a registered agent has resolved, then for every
\* platform of the agent, in list order, a CONTENT_CREATED event carrying the
\* generated content was published, the post call for it was made with that
\* content and has settled, and where the post succeeded a CONTENT_PUBLISHED
\* event for it was published after the CONTENT_CREATED event.
C15_FiringPublishesInOrder ==
  \A f \in 1..Len(firings) :
    LET fr == firings[f]
    IN  (fr.pc = "resolved" /\ fr.agentId \in DOMAIN agents) =>
          /\ Len(fr.published) = Len(agents[fr.agentId].platforms)
          /\ Len(fr.gens) = Len(fr.published)
          /\ \A i \in 1..Len(fr.published) :
               LET p == fr.published[i]
               IN  /\ pubs[p].event.type = CONTENT_CREATED
                   /\ pubs[p].event.payload = fr.gens[i].content
                   /\ pubs[p].event.metadata.platform = agents[fr.agentId].platforms[i]
                   /\ \E q \in 1..Len(posts) :
                        /\ posts[q].pub = p
                        /\ posts[q].payload = fr.gens[i].content
                        /\ posts[q].state # "pending"
                        /\ posts[q].state = "ok" =>
                             \E cp \in RepublishedFrom(p) :
                               /\ cp > p
                               /\ pubs[cp].event.type = CONTENT_PUBLISHED
                               /\ pubs[cp].event.payload = fr.gens[i].content

\* a firing has resolved after the content it generated was posted
\* successfully and both events were published
C15_Witness ==
  \E f \in 1..Len(firings) :
    /\ firings[f].pc = "resolved"
    /\ Len(firings[f].published) >= 1
    /\ \A i \in 1..Len(firings[f].published) :
         \E q \in 1..Len(posts) :
           /\ posts[q].pub = firings[f].published[i]
           /\ posts[q].state = "ok"
           /\ RepublishedFrom(posts[q].pub) # {}

(* --------------------------- delivery properties ------------------------ *)
\* the post calls made for the event of publish call p
PostsFor(po, p) == {q \in 1..Len(po) : po[q].pub = p}

\* the handler received the event of publish call p of the sequence ps
Delivered(ps, p) ==
  /\ ps[p].event.type = CONTENT_CREATED
  /\ RuntimeHandler \in DOMAIN ps[p].calls

\* C13: a step that delivers a CONTENT_CREATED event whose agentId is not
\* registered or whose platform has no adapter makes no post call, and the
\* handler's promise is fulfilled at once; post calls are only made for the
\* event just delivered, and an event no post call was made for is never
\* followed by an event published on its behalf.
C13_UndeliverableDropped ==
  [][ /\ \A q \in (Len(posts) + 1)..Len(posts') : posts'[q].pub > Len(pubs)
      /\ \A p \in (Len(pubs) + 1)..Len(pubs') :
           ( /\ Delivered(pubs', p)
             /\ \/ pubs'[p].event.agentId \notin DOMAIN agents'
                \/ pubs'[p].event.metadata.platform \notin DOMAIN platforms' )
           => /\ PostsFor(posts', p) = {}
              /\ pubs'[p].outcome[RuntimeHandler] = "ok"
              /\ pubs'[p].status = "resolved"
      /\ \A p \in 1..Len(pubs') :
           (Delivered(pubs', p) /\ PostsFor(posts', p) = {})
             => \A r \in 1..Len(pubs') : pubs'[r].source # <<"handler", p>>
    ]_vars

\* an event naming an unknown agent and an event naming an unbound platform
\* of a registered agent have both been delivered, the first of them while
\* its platform had an adapter
C13_Witness ==
  \E p, r \in ExternalPubs :
    /\ Delivered(pubs, p) /\ Delivered(pubs, r)
    /\ pubs[p].event.agentId \notin DOMAIN agents
    /\ pubs[p].event.metadata.platform \in DOMAIN platforms
    /\ p < r
    /\ pubs[r].event.agentId \in DOMAIN agents
    /\ pubs[r].event.metadata.platform \notin DOMAIN platforms
    /\ PostsFor(posts, p) = {} /\ PostsFor(posts, r) = {}

\* C14: every CONTENT_PUBLISHED event was published by the handler on behalf
\* of an earlier CONTENT_CREATED event with which it agrees in id, agentId,
\* timestamp, payload and metadata, after a post call made with that payload
\* for that event had succeeded.
C14_PublishedMirrorsCreated ==
  \A p \in 1..Len(pubs) :
    pubs[p].event.type = CONTENT_PUBLISHED =>
      \E src \in 1..(p - 1) :
        /\ pubs[p].source = <<"handler", src>>
        /\ pubs[src].event.type = CONTENT_CREATED
        /\ pubs[src].event = [pubs[p].event EXCEPT !.type = CONTENT_CREATED]
        /\ pubs[p].event.id = pubs[src].event.id
        /\ pubs[p].event.timestamp = pubs[src].event.timestamp
        /\ \E q \in PostsFor(posts, src) :
             /\ posts[q].state = "ok"
             /\ posts[q].payload = pubs[p].event.payload

\* a CONTENT_PUBLISHED event exists for the second of two CONTENT_CREATED
\* events, the first of which was not posted successfully
C14_Witness ==
  \E p \in 1..Len(pubs), a, b \in ExternalPubs :
    /\ a < b
    /\ pubs[p].event.type = CONTENT_PUBLISHED
    /\ pubs[p].source = <<"handler", b>>
    /\ \E q \in PostsFor(posts, a) : posts[q].state = "failed"

\* C16: the binding of every platform is the adapter of the latest
\* registerPlatform call for it, and a post call made for a delivered event
\* goes to the adapter bound to the event's platform at that moment.
C16_LatestAdapterReceivesPosts ==
  [][ /\ platforms' = lastBound'
      /\ \A q \in (Len(posts) + 1)..Len(posts') :
           posts'[q].adapter = lastBound[pubs'[posts'[q].pub].event.metadata.platform]
    ]_vars

\* two events for the same platform were posted to different adapters, the
\* later one to the adapter that replaced the other
C16_Witness ==
  \E q, r \in 1..Len(posts) :
    /\ q < r
    /\ pubs[posts[q].pub].event.metadata.platform = pubs[posts[r].pub].event.metadata.platform
    /\ posts[q].adapter # posts[r].adapter
    /\ posts[r].adapter = platforms[pubs[posts[r].pub].event.metadata.platform]

(* -------------------------- lifecycle properties ------------------------ *)
\* the latest of the registerAgent/startAgent/stopAgent calls for agent id
LatestAgentCall(lc, id) == lc.agentCall[id][Len(lc.agentCall[id])]

\* C17: stopAgent(id) leaves no job of agent id in the queue, keeps the jobs
\* of every other agent, and keeps the agent record, which getAgent(id)
\* still returns.
C17_StopAgentRemovesOwnJobs ==
  [][ \A id \in AgentIds :
        StopAgent(id) =>
          /\ JobsIn(queue', id) = {}
          /\ \A o \in DOMAIN agents \ {id} :
               Cardinality(JobsIn(queue', o)) = Cardinality(JobsIn(queue, o))
          /\ Len(queue') = Len(queue) - Cardinality(JobsIn(queue, id))
          /\ agents' = agents
          /\ getAgent(agents', id) = agents[id]
    ]_vars

\* an agent whose job was removed by stopAgent is still registered while
\* the job of another agent is still queued
C17_Witness ==
  \E id, o \in DOMAIN agents :
    /\ id # o
    /\ lifecycle.agentCall[id] = <<"registerAgent", "stopAgent">>
    /\ JobsIn(queue, id) = {}
    /\ JobsIn(queue, o) # {}
    /\ \E c \in 1..Len(regCalls) :
         regCalls[c].returned.id = id /\ getAgent(agents, id) = regCalls[c].returned

\* C18: startAgent(id) for a registered agent appends one recurring
\* 'generate-content' job carrying { agentId: id } to the queue and changes
\* nothing else of the queue or the agent records.
C18_StartAgentArmsJob ==
  [][ \A id \in AgentIds :
        StartAgent(id) =>
          /\ id \in DOMAIN agents
          /\ Len(queue') = Len(queue) + 1
          /\ SubSeq(queue', 1, Len(queue)) = queue
          /\ queue'[Len(queue')].name = "generate-content"
          /\ queue'[Len(queue')].data = [agentId |-> id]
          /\ "repeat" \in DOMAIN queue'[Len(queue')].opts
          /\ JobsIn(queue', id) # {}
          /\ agents' = agents
    ]_vars

\* an agent stopped by stopAgent has a queued job again after startAgent
C18_Witness ==
  \E id \in DOMAIN agents :
    /\ lifecycle.agentCall[id] = <<"registerAgent", "stopAgent", "startAgent">>
    /\ Cardinality(JobsIn(queue, id)) = 1

\* C19: a firing starts only while the queue is processing, never once
\* stop() has closed the queue, and for a registered agent only when the
\* latest call for it is not stopAgent; the steps of stop() and stopAgent
\* change no firing and retract no event or post call.
C19_NoFiringAfterStop ==
  [][ /\ \A f \in (Len(firings) + 1)..Len(firings') :
           /\ lifecycle.queue = "running"
           /\ lifecycle.stop \notin {"quitting", "resolved"}
           /\ firings'[f].agentId \in DOMAIN agents
                => LatestAgentCall(lifecycle, firings'[f].agentId) # "stopAgent"
      /\ (Stop \/ StopContinue \/ \E id \in AgentIds : StopAgent(id))
           => /\ firings' = firings
              /\ pubs' = pubs
              /\ posts' = posts
    ]_vars

\* stop() has resolved and start() was never called, yet a firing that was
\* in progress has resolved, having published CONTENT_CREATED after the
\* queue was paused, followed by CONTENT_PUBLISHED
C19_Witness ==
  /\ lifecycle.stop = "resolved"
  /\ lifecycle.resumes = 0
  /\ \E f \in 1..Len(firings) :
       /\ firings[f].pc = "resolved"
       /\ \E p \in PublishedByFiring(f) :
            /\ p > lifecycle.pubsAtStop
            /\ RepublishedFrom(p) # {}

\* the backend calls of stop() and their completions, in order
StopOrder ==
  <<"pause", "pause done", "close", "close done", "quit", "quit done", "resolved">>

\* what stop() has done so far follows StopOrder
StopInOrder(lc) ==
  /\ Len(lc.log) <= Len(StopOrder)
  /\ lc.log = SubSeq(StopOrder, 1, Len(lc.log))
  /\ lc.stop = "idle" <=> lc.log = <<>>
  /\ lc.stop = "resolved" <=> lc.log = StopOrder
  /\ lc.stop = "resolved" => lc.queue = "closed" /\ lc.redis = "closed"
  /\ lc.redis = "closed" => lc.queue = "closed"

\* C20: stop() calls pause, close and quit in that order, each after the one
\* before it has completed, and resolves only after quit has completed, the
\* queue and the Redis connection being closed by then; start() makes a
\* paused queue process jobs again.
C20_StopOrderStartResumes ==
  [][ /\ StopInOrder(lifecycle')
      /\ (Start /\ lifecycle.queue = "paused") => lifecycle'.queue = "running"
    ]_vars

\* stop() has resolved although start() resumed the queue in between
C20_Witness ==
  /\ lifecycle.stop = "resolved"
  /\ lifecycle.resumes >= 1
  /\ lifecycle.queue = "closed"
  /\ lifecycle.redis = "closed"
  /\ Len(firings) = 1

(* ------------------------ job processor, agent lookup ------------------- *)
\* C21: a firing whose agentId is not in the agent table is rejected with
\* the "Agent not found" error at once: no generation was started for it, the
\* step that starts it publishes nothing and posts nothing, and the firing
\* never changes or publishes afterwards.
C21_UnknownAgentRejected ==
  [][ /\ \A f \in (Len(firings) + 1)..Len(firings') :
           firings'[f].agentId \notin DOMAIN agents =>
             /\ firings'[f].pc = "rejected"
             /\ firings'[f].error = "Agent not found"
             /\ firings'[f].gens = <<>>
             /\ firings'[f].published = <<>>
             /\ pubs' = pubs
             /\ posts' = posts
      /\ \A f \in 1..Len(firings) :
           firings[f].error = "Agent not found" =>
             /\ firings'[f] = firings[f]
             /\ \A p \in 1..Len(pubs') : pubs'[p].source # <<"job", f>>
    ]_vars

\* a firing for an unknown agent id was rejected while a registered agent
\* with a bound platform existed
C21_Witness ==
  \E f \in 1..Len(firings) :
    /\ firings[f].error = "Agent not found"
    /\ firings[f].pc = "rejected"
    /\ firings[f].agentId \notin DOMAIN agents
    /\ \E a \in DOMAIN agents :
         \E i \in 1..Len(agents[a].platforms) : agents[a].platforms[i] \in DOMAIN platforms

(* ------------------------ ContentGenerator properties ------------------------ *)
\* the template id a generateContent call was made with, and the registry
\* it is looked up in
TemplateIdOf(call) ==
  IF call.variant = "params" THEN call.params.templateId ELSE call.request.template.id
RegistryOf(call) ==
  IF call.variant = "params" THEN generator.templates ELSE generator.defaults
GenCalls == { generator.calls[c] : c \in 1..Len(generator.calls) }
ParamsCalls == { call \in GenCalls : call.variant = "params" }
RequestCalls == { call \in GenCalls : call.variant = "request" }

\* C22: a generateContent call for a template id that is not in the registry
\* is rejected with 'Template <id> not found' and has made no engine call
C22_UnknownTemplateRejected ==
  \A call \in GenCalls :
    TemplateIdOf(call) \notin DOMAIN RegistryOf(call) =>
      /\ call.outcome = Some(Rejected([ name |-> "Error",
            message |-> "Template " \o TemplateIdOf(call) \o " not found" ]))
      /\ call.engine = <<>>

C22_Witness ==
  \E call \in ParamsCalls :
    /\ call.params.templateId = "invalid"
    /\ call.outcome # None
    /\ call.outcome[1].state = "rejected"
    /\ call.outcome[1].error.message = "Template invalid not found"
    /\ call.engine = <<>>

\* the text of the structured response of a call, when it has one
HasResponseText(call) ==
  /\ call.content # None
  /\ call.content[1].kind = "json"
  /\ call.content[1].value.object
  /\ call.content[1].value.content # None
  /\ call.content[1].value.content[1].text # None
ResponseText(call) == call.content[1].value.content[1].text[1]
ContentTooLong == Rejected([ name |-> "Error", message |-> "Content exceeds maximum length" ])
\* the structured response of a call has metadata.performance
HasPerformance(call) ==
  /\ call.content[1].value.metadata # None
  /\ call.content[1].value.metadata[1].performance # None

\* C23: a response whose text is at most maxLength long is never rejected as
\* too long, is returned when it has its performance metadata, and when the
\* call returns the text is returned unchanged; a
\* response whose text is longer, maxLength + 1 included, is rejected with
\* 'Content exceeds maximum length'
C23_LengthBoundary ==
  \A call \in ParamsCalls :
    HasResponseText(call) =>
      LET maxLength == call.template[1].format.maxLength
      IN  IF Len(ResponseText(call)) <= maxLength
          THEN /\ call.outcome # Some(ContentTooLong)
               /\ HasPerformance(call) => call.outcome[1].state = "returned"
               /\ call.outcome[1].state = "returned" =>
                    call.outcome[1].value.content.text = Some(ResponseText(call))
          ELSE call.outcome = Some(ContentTooLong)

C23_Witness ==
  \E call \in ParamsCalls :
    /\ HasResponseText(call)
    /\ Len(ResponseText(call)) = call.template[1].format.maxLength
    /\ call.outcome[1].state = "returned"
    /\ call.outcome[1].value.content.text = Some(ResponseText(call))

\* the calls that returned a result, and the texts of the variations of a
\* returned result
ReturnedCalls == { call \in GenCalls : call.outcome # None /\ call.outcome[1].state = "returned" }
ResultOf(call) == call.outcome[1].value
VariationTextsOf(call) ==
  LET variations == ResultOf(call).variations
  IN  { IF call.variant = "params" THEN variations[i] ELSE variations[i].text :
          i \in 1..Len(variations) }

\* C24: in every returned result the text of each variation is at most
\* template.format.maxLength long
C24_VariationsWithinMaxLength ==
  \A call \in ReturnedCalls :
    \A text \in VariationTextsOf(call) :
      Len(text) <= call.template[1].format.maxLength

MissingMetadata == Rejected([ name |-> "Error", message |-> "Missing required metadata" ])

\* every returned result carries its performance metadata
ReturnsPerformance ==
  \A call \in ReturnedCalls : ResultOf(call).metadata.performance # None

\* C25 as stated: no returned result lacks performance metadata, and a
\* structured response without metadata.performance makes the call fail with
\* 'Missing required metadata'
C25_AsStated ==
  /\ ReturnsPerformance
  /\ \A call \in ParamsCalls :
       HasResponseText(call) /\ ~HasPerformance(call) =>
         call.outcome = Some(MissingMetadata)

\* C25: no returned result lacks performance metadata, and a structured
\* response without metadata.performance whose text is within maxLength makes
\* the call fail with 'Missing required metadata'; when the text is longer
\* than maxLength the call fails with 'Content exceeds maximum length'
C25_MissingMetadataRejected ==
  /\ ReturnsPerformance
  /\ \A call \in ParamsCalls :
       HasResponseText(call) /\ ~HasPerformance(call) =>
         call.outcome =
           IF Len(ResponseText(call)) <= call.template[1].format.maxLength
           THEN Some(MissingMetadata) ELSE Some(ContentTooLong)

C25_Witness ==
  \E call \in ParamsCalls :
    /\ HasResponseText(call)
    /\ ~HasPerformance(call)
    /\ Len(ResponseText(call)) <= call.template[1].format.maxLength
    /\ call.outcome = Some(MissingMetadata)

InvalidResponseFormat == Rejected([ name |-> "Error", message |-> "Invalid response format" ])

EngineFailed(call, k) == k \in 1..Len(call.engine) /\ call.engine[k].state = "rejected"

LogPosition(call, entry) ==
  IF \E p \in 1..Len(call.log) : call.log[p] = entry
  THEN CHOOSE p \in 1..Len(call.log) : call.log[p] = entry
  ELSE 0
StartOf(call, k) == LogPosition(call, <<"start", k>>)
EndOf(call, k) == LogPosition(call, <<"end", k>>)
EngineCallsFor(call, purpose) ==
  { k \in 1..Len(call.engine) : call.engine[k].purpose = purpose }

\* C28: a returned generateContent(request) with P platforms has made exactly
\* P + 2 engine calls: one for the base content, one for each platform, one
\* for the performance; at any time, a variation call has started only after
\* the base call ended and the performance call only after every one of the P
\* variation calls ended; the returned variations are one per platform, in
\* the order of request.platforms
C28_EngineCallsOfRequest ==
  \A call \in RequestCalls :
    LET P == Len(call.request.platforms)
        base == EngineCallsFor(call, "base")
        variation == EngineCallsFor(call, "variation")
        performance == EngineCallsFor(call, "performance")
    IN  /\ \A v \in variation : \A b \in base :
             /\ StartOf(call, v) > 0
             /\ EndOf(call, b) > 0
             /\ EndOf(call, b) < StartOf(call, v)
        /\ \A a \in performance :
             /\ Cardinality(variation) = P
             /\ \A v \in variation :
                  /\ call.engine[v].state = "fulfilled"
                  /\ EndOf(call, v) > 0
                  /\ EndOf(call, v) < StartOf(call, a)
        /\ call \in ReturnedCalls =>
             /\ Len(call.engine) = P + 2
             /\ Cardinality(base) = 1
             /\ Cardinality(performance) = 1
             /\ { call.engine[v].index : v \in variation } = 1..P
             /\ Cardinality(variation) = P
             /\ Len(ResultOf(call).variations) = P
             /\ \A i \in 1..P :
                  ResultOf(call).variations[i].metadata.platform = call.request.platforms[i]

\* a returned call for two different platforms whose second variation call
\* ended before the first
C28_Witness ==
  \E call \in RequestCalls :
    /\ call \in ReturnedCalls
    /\ Len(call.request.platforms) = 2
    /\ call.request.platforms[1] # call.request.platforms[2]
    /\ Len(call.engine) = 4
    /\ \E v1, v2 \in EngineCallsFor(call, "variation") :
         /\ call.engine[v1].index = 1
         /\ call.engine[v2].index = 2
         /\ EndOf(call, v2) < EndOf(call, v1)

\* the positions of a text at which an integer starts: a digit that does not
\* follow a digit; and the value of the integer that starts at position i
IntegerStarts(text) ==
  { i \in 1..Len(text) : IsDigit(text[i]) /\ (i = 1 \/ ~IsDigit(text[i - 1])) }
IntegerEnd(text, i) ==
  CHOOSE j \in i..Len(text) :
    /\ \A k \in i..j : IsDigit(text[k])
    /\ j = Len(text) \/ ~IsDigit(text[j + 1])
RECURSIVE PowerOfTen(_)
PowerOfTen(n) == IF n = 0 THEN 1 ELSE 10 * PowerOfTen(n - 1)
RECURSIVE DecimalValue(_, _, _)
DecimalValue(text, i, j) ==
  IF i > j THEN 0
  ELSE DigitValue[text[i]] * PowerOfTen(j - i) + DecimalValue(text, i + 1, j)
\* the n-th integer that appears in text, 0 when there are fewer than n
NthInteger(text, n) ==
  LET starts == IntegerStarts(text)
  IN  IF Cardinality(starts) < n THEN 0
      ELSE LET i == CHOOSE s \in starts : Cardinality({ r \in starts : r < s }) = n - 1
           IN  DecimalValue(text, i, IntegerEnd(text, i))

\* C29: when analyzePerformance returns, expectedEngagement is the first
\* integer of the analysis text and confidenceScore the second, 0 standing
\* for an integer the text does not have
C29_FirstTwoIntegers ==
  \A call \in RequestCalls :
    call \in ReturnedCalls =>
      /\ call.analysis # None
      /\ ResultOf(call).metadata.performance =
           Some([ expectedEngagement |-> NthInteger(call.analysis[1], 1),
                  confidenceScore |-> NthInteger(call.analysis[1], 2) ])

\* a returned call whose analysis text "15x5" has two different integers
C29_Witness ==
  \E call \in RequestCalls :
    /\ call \in ReturnedCalls
    /\ call.analysis = Some(<<"1", "5", "x", "5">>)
    /\ ResultOf(call).metadata.performance =
         Some([ expectedEngagement |-> 15, confidenceScore |-> 5 ])

\* C30: in every returned result expectedEngagement and confidenceScore are
\* both between 0 and 100
C30_PerformanceInRange ==
  \A call \in ReturnedCalls :
    /\ ResultOf(call).metadata.performance # None
    /\ ResultOf(call).metadata.performance[1].expectedEngagement \in 0..100
    /\ ResultOf(call).metadata.performance[1].confidenceScore \in 0..100

(* ----------------------- template and prompt properties ----------------- *)
\* the prompt with every occurrence of every placeholder that names a
\* variable replaced by that variable's value, read from position i on, and
\* everything else copied as it is
EntryAt(prompt, entries, i) ==
  { e \in 1..Len(entries) : Occurs(prompt, Placeholder(entries[e][1]), i) }
RECURSIVE SubstituteAll(_, _, _)
SubstituteAll(prompt, entries, i) ==
  IF i > Len(prompt) THEN <<>>
  ELSE IF EntryAt(prompt, entries, i) = {}
  THEN <<prompt[i]>> \o SubstituteAll(prompt, entries, i + 1)
  ELSE LET e == CHOOSE x \in EntryAt(prompt, entries, i) : TRUE
       IN  entries[e][2]
             \o SubstituteAll(prompt, entries, i + Len(Placeholder(entries[e][1])))

\* the buildPrompt calls made for a registered template
Built == { generator.built[b] : b \in 1..Len(generator.built) }

\* C31: buildPrompt returns the template's prompt with every occurrence of
\* {key} replaced by the value of the variable key, for every key of
\* request.variables, and with every other placeholder left as it is; it
\* throws for no registered template
C31_EveryPlaceholderSubstituted ==
  \A call \in Built :
    call.prompt # None =>
      /\ call.result.state = "returned"
      /\ call.result.value = SubstituteAll(call.prompt[1], call.request.variables, 1)

\* every template id the model looks up or registers
AllTemplateIds ==
  TemplateIds \cup RequestTemplateIds \cup PromptTemplateIds \cup DOMAIN DefaultTemplates

\* C32 as stated: no step changes which template getTemplate(id) returns,
\* for any id and either generator
C32_AsStated ==
  [][\A id \in AllTemplateIds :
       /\ getTemplate(generator'.templates, id) = getTemplate(generator.templates, id)
       /\ templatesGet(generator'.defaults, id) = templatesGet(generator.defaults, id)]_vars

\* C32 (amended): the registry of the config-based generator never changes;
\* in the request-based generator a step changes what getTemplate returns
\* only when it is a registerTemplate(template) call, after which
\* getTemplate(template.id) returns template and every other id returns what
\* it returned before
C32_OnlyRegisterTemplateChangesRegistry ==
  [][/\ \A id \in AllTemplateIds :
          getTemplate(generator'.templates, id) = getTemplate(generator.templates, id)
     /\ \/ \A id \in AllTemplateIds :
             templatesGet(generator'.defaults, id) = templatesGet(generator.defaults, id)
        \/ \E template \in RegisteredTemplates :
             /\ RegisterTemplate(template)
             /\ \A id \in AllTemplateIds :
                  templatesGet(generator'.defaults, id) =
                    IF id = template.id THEN Some(template)
                    ELSE templatesGet(generator.defaults, id)]_vars

\* the default 'news-update' has been replaced and 'test-template' added
\* after construction, the other defaults are as constructed, and a
\* generateContent call and a buildPrompt call have been made
C32_Witness ==
  /\ templatesGet(generator.defaults, "news-update")
       = Some([ id |-> "news-update", prompt |-> <<"x">>, format |-> [ maxLength |-> 100 ] ])
  /\ templatesGet(generator.defaults, "test-template") # None
  /\ templatesGet(generator.defaults, "trend-analysis")
       = Some(DefaultTemplates["trend-analysis"])
  /\ generator.templates = ConfigTemplates(MaxLength)
  /\ Len(generator.calls) = 1
  /\ Len(generator.built) = 1

(* ------------------------- job firing properties ------------------------ *)
\* C33: when a firing has begun generation for the platform at position
\* i + 1, the publish of the CONTENT_CREATED event of position i is resolved,
\* the post it triggered has settled, and where that post succeeded the
\* CONTENT_PUBLISHED event has been published
C33_PostSettledBeforeNextGeneration ==
  \A f \in 1..Len(firings) :
    LET fr == firings[f]
    IN  \A i \in 1..(Len(fr.gens) - 1) :
          LET p == fr.published[i]
          IN  /\ pubs[p].status = "resolved"
              /\ PostsFor(posts, p) # {}
              /\ \A q \in PostsFor(posts, p) :
                   /\ posts[q].state # "pending"
                   /\ posts[q].state = "ok" =>
                        \E cp \in RepublishedFrom(p) :
                          /\ pubs[cp].event.type = CONTENT_PUBLISHED
                          /\ pubs[cp].event.id = pubs[p].event.id

\* generation for a second platform is pending, the post for the first
\* succeeded and its CONTENT_PUBLISHED event is there
C33_Witness ==
  \E f \in 1..Len(firings) :
    /\ Len(firings[f].gens) = 2
    /\ firings[f].pc = "generating"
    /\ \E q \in PostsFor(posts, firings[f].published[1]) :
         /\ posts[q].state = "ok"
         /\ RepublishedFrom(posts[q].pub) # {}

\* the positions of a firing whose post has failed
FailedPostPositions(f) ==
  { i \in 1..Len(firings[f].published) :
      \E q \in PostsFor(posts, firings[f].published[i]) : posts[q].state = "failed" }

\* C34: a failed post does not fail the firing: the publish it belongs to is
\* resolved, a firing that is rejected after it was rejected by a later
\* platform (its generation failed or it has no adapter), and a firing all
\* of whose later generations succeeded with every platform bound resolves
\* with one CONTENT_CREATED event per platform
C34_PostFailureDoesNotFailFiring ==
  \A f \in 1..Len(firings) : \A i \in FailedPostPositions(f) :
    LET fr == firings[f]
        plats == agents[fr.agentId].platforms
    IN  /\ pubs[fr.published[i]].status = "resolved"
        /\ fr.pc = "rejected" =>
             \/ /\ fr.error = "Platform not configured"
                /\ fr.k > i
                /\ Len(fr.gens) = fr.k - 1
             \/ /\ fr.error \in GenErrors
                /\ Len(fr.gens) > i
                /\ fr.gens[Len(fr.gens)].state = "failed"
        /\ fr.pc = "resolved" =>
             /\ Len(fr.published) = Len(plats)
             /\ \A j \in 1..Len(plats) :
                  /\ pubs[fr.published[j]].event.type = CONTENT_CREATED
                  /\ pubs[fr.published[j]].event.metadata.platform = plats[j]

\* the post for the first of two platforms failed, the content for the
\* second was generated and published, and the firing resolved
C34_Witness ==
  \E f \in 1..Len(firings) :
    /\ firings[f].pc = "resolved"
    /\ Len(firings[f].published) = 2
    /\ 1 \in FailedPostPositions(f)
    /\ firings[f].gens[2].state = "ok"

\* the publish calls job firings made
JobPubs == { p \in 1..Len(pubs) : pubs[p].source[1] = "job" }

\* C35: every CONTENT_CREATED event a job firing published was handled with
\* its agent in the agent table and an adapter bound to its platform, so that
\* the handler called post for it exactly once; and no step removes an agent
\* from the agent table, changes a stored agent, or removes a binding from
\* the platform map
C35_JobEventsAlwaysDeliverable ==
  /\ [](\A p \in JobPubs :
          /\ pubs[p].event.type = CONTENT_CREATED
          /\ pubs[p].event.agentId \in DOMAIN agents
          /\ pubs[p].event.metadata.platform \in DOMAIN platforms
          /\ RuntimeHandler \in DOMAIN pubs[p].calls
          /\ pubs[p].calls[RuntimeHandler] = 1
          /\ Cardinality(PostsFor(posts, p)) = 1)
  /\ [][/\ \A a \in DOMAIN agents : a \in DOMAIN agents' /\ agents'[a] = agents[a]
        /\ DOMAIN platforms \subseteq DOMAIN platforms']_vars

\* an agent was registered between the two CONTENT_CREATED events of a
\* firing, and the second event reached the adapter
C35_Witness ==
  \E p1, p2, p3 \in 1..Len(pubs) :
    /\ p1 < p2 /\ p2 < p3
    /\ p1 \in JobPubs /\ p3 \in JobPubs
    /\ pubs[p2].source = <<"registerAgent", 0>>
    /\ PostsFor(posts, p3) # {}

(* ---------------------- delivery while handlers call the bus ------------ *)
\* the publish calls during which handler h, while being invoked, made the
\* bus call kind for handler g
ScriptedPubs(kind, h, g) ==
  { p \in 1..Len(pubs) :
      /\ "scripts" \in DOMAIN pubs[p]
      /\ h \in DOMAIN pubs[p].scripts
      /\ pubs[p].scripts[h] = <<kind, g>> }

\* C36: the handlers a publish call invokes are those registered for the
\* event's type when it was called, each once, whatever the invoked handlers
\* do to the registry meanwhile: a handler that an earlier handler of the
\* same delivery unsubscribed is still invoked, and a handler subscribed
\* during the delivery is not invoked by it.
C36_HandlerSetFixedAtPublish ==
  \A p \in 1..Len(pubs) :
    /\ DOMAIN pubs[p].calls = pubs[p].registered
    /\ \A h \in DOMAIN pubs[p].calls : pubs[p].calls[h] = 1
    /\ \A h, g \in UserHandlers :
         /\ (p \in ScriptedPubs("unsubscribe", h, g) /\ g \in pubs[p].registered)
              => g \in DOMAIN pubs[p].calls
         /\ (p \in ScriptedPubs("subscribe", h, g) /\ g \notin pubs[p].registered)
              => g \notin DOMAIN pubs[p].calls

\* one delivery invoked a handler after an earlier handler of the same
\* delivery had unsubscribed it, and another delivery did not invoke the
\* handler that one of its handlers subscribed
C36_Witness ==
  \E p, q \in 1..Len(pubs) : \E h, g \in UserHandlers :
    /\ h # g
    /\ p \in ScriptedPubs("unsubscribe", h, g)
    /\ pubs[p].order = <<h, g>>
    /\ q \in ScriptedPubs("subscribe", h, g)
    /\ g \notin pubs[q].registered
    /\ pubs[q].order = <<h>>
    /\ g \in RegisteredHandlers(handlers, pubs[q].event.type)

\* C37: subscribing a handler that is already registered for the type
\* changes nothing: the registry is the same as after the first subscribe,
\* a delivery to it invokes the handler exactly once, and one unsubscribe
\* leaves the handler unregistered; every publish call made so far invoked
\* each of its handlers once.
C37_SecondSubscribeRegistersOnce ==
  /\ \A h \in UserHandlers :
       LET once == subscribe(handlers, CONTENT_CREATED, h)
           twice == subscribe(once, CONTENT_CREATED, h)
       IN  /\ twice = once
           /\ \A order \in DeliveryOrders :
                LET d == Deliver([ handlers |-> twice, lastCall |-> lastCall ],
                                 CONTENT_CREATED,
                                 RegisteredHandlers(twice, CONTENT_CREATED), <<>>,
                                 [g \in UserHandlers |-> <<"none", 0>>], order)
                IN  Cardinality({i \in 1..Len(d.invoked) : d.invoked[i] = h}) = 1
           /\ h \notin RegisteredHandlers(unsubscribe(twice, CONTENT_CREATED, h).handlers,
                                          CONTENT_CREATED)
  /\ \A p \in 1..Len(pubs) : \A h \in DOMAIN pubs[p].calls :
       /\ pubs[p].calls[h] = 1
       /\ Cardinality({i \in 1..Len(pubs[p].order) : pubs[p].order[i] = h}) = 1

\* a handler subscribed a handler that was registered already, a later
\* publish invoked that handler once, and a single unsubscribe then removed it
C37_Witness ==
  \E p, q \in 1..Len(pubs) : \E h, g \in UserHandlers :
    /\ p < q
    /\ p \in ScriptedPubs("subscribe", h, g)
    /\ g \in pubs[p].registered
    /\ g \in DOMAIN pubs[q].calls
    /\ pubs[q].calls[g] = 1
    /\ \A k \in DOMAIN pubs[q].scripts : pubs[q].scripts[k] = <<"none", 0>>
    /\ lastCall[<<CONTENT_CREATED, g>>] = "unsubscribe"
    /\ g \notin RegisteredHandlers(handlers, CONTENT_CREATED)

(* ------------------------- registration properties ---------------------- *)
\* C38: registerAgent stores the agent, then publishes STRATEGY_UPDATED, then
\* adds the job: a handler the event is delivered to finds the agent with
\* getAgent and no job of the agent in the queue, and the job is in the
\* queue when registerAgent has returned.
C38_StoreEmitSchedule ==
  \A i \in 1..Len(regCalls) :
    LET a == regCalls[i].returned
    IN  /\ StrategyEventsFor(a.id) # {}
        /\ regCalls[i].delivered.agent = a
        /\ regCalls[i].delivered.jobs = {}
        /\ Cardinality(JobsFor(a.id)) = 1
        /\ getAgent(agents, a.id) = a

\* the event of a registerAgent call was delivered to a subscribed handler
C38_Witness ==
  \E i \in 1..Len(regCalls) : \E p \in StrategyEventsFor(regCalls[i].returned.id) :
    /\ pubs[p].source = <<"registerAgent", 0>>
    /\ \E h \in UserHandlers : h \in DOMAIN pubs[p].calls /\ pubs[p].calls[h] = 1

(* ------------------------ adapter lookup properties --------------------- *)
\* the firings rejected by the adapter lookup
NotConfigured(frs) ==
  {f \in 1..Len(frs) : frs[f].error = "Platform not configured"}

\* C39: the adapter lookup comes before generation. The engine is never
\* called for a platform that has no adapter; a firing the lookup rejected at
\* position k called the engine for the platforms at positions 1..k-1 only
\* and published CONTENT_CREATED for those only; the step that rejects it
\* publishes nothing, and afterwards the firing does nothing more while the
\* events published before stay in the log unchanged.
C39_LookupPrecedesGeneration ==
  /\ [](\A f \in 1..Len(firings) :
          /\ \A i \in 1..Len(firings[f].gens) :
               firings[f].gens[i].platform \in DOMAIN platforms
          /\ f \in NotConfigured(firings) =>
               LET fr == firings[f]
                   pl == agents[fr.agentId].platforms
               IN  /\ fr.k \in 1..Len(pl)
                   /\ Len(fr.gens) = fr.k - 1
                   /\ \A i \in 1..Len(fr.gens) : fr.gens[i].platform = pl[i]
                   /\ Len(fr.published) = fr.k - 1
                   /\ PublishedByFiring(f) = Range(fr.published)
                   /\ \A i \in 1..Len(fr.published) :
                        /\ pubs[fr.published[i]].event.type = CONTENT_CREATED
                        /\ pubs[fr.published[i]].event.metadata.platform = pl[i])
  /\ [][\A f \in NotConfigured(firings') :
          /\ Len(pubs') >= Len(pubs)
          /\ \A p \in 1..Len(pubs) : pubs'[p].event = pubs[p].event
          /\ IF f \in NotConfigured(firings)
             THEN /\ firings'[f] = firings[f]
                  /\ PublishedByFiring(f)' = PublishedByFiring(f)
             ELSE pubs' = pubs]_vars

\* a firing was rejected by the lookup at its second platform, the event of
\* its first platform is in the log, and the missing adapter was bound
\* afterwards
C39_Witness ==
  \E f \in NotConfigured(firings) :
    /\ firings[f].k = 2
    /\ Len(firings[f].published) = 1
    /\ pubs[firings[f].published[1]].event.type = CONTENT_CREATED
    /\ agents[firings[f].agentId].platforms[2] \in DOMAIN platforms

(* --------------------------- stop() properties -------------------------- *)
\* C40: stop() leaves the agent table, the platform bindings and the
\* runtime's CONTENT_CREATED subscription as they are, and a CONTENT_CREATED
\* event published after stop() has returned, naming a registered agent and
\* a bound platform, makes the handler call post on the bound adapter with
\* the event's payload.
C40_StopKeepsDispatch ==
  /\ [](RuntimeHandler \in RegisteredHandlers(handlers, CONTENT_CREATED))
  /\ [][/\ lifecycle'.stop # lifecycle.stop =>
             /\ agents' = agents
             /\ platforms' = platforms
             /\ handlers' = handlers
        /\ ( /\ lifecycle.stop = "resolved"
             /\ Len(pubs') = Len(pubs) + 1
             /\ pubs'[Len(pubs')].source = <<"external", 0>>
             /\ pubs'[Len(pubs')].event.type = CONTENT_CREATED
             /\ pubs'[Len(pubs')].event.agentId \in DOMAIN agents
             /\ pubs'[Len(pubs')].event.metadata.platform \in DOMAIN platforms ) =>
             posts' = Append(posts,
                        [ adapter |-> platforms[pubs'[Len(pubs')].event.metadata.platform],
                          payload |-> pubs'[Len(pubs')].event.payload,
                          pub |-> Len(pubs'), state |-> "pending" ])]_vars

\* stop() has returned, and the post made for an event published after that
\* for a registered agent has succeeded
C40_Witness ==
  /\ lifecycle.stop = "resolved"
  /\ \E p \in ExternalPubs :
       /\ pubs[p].event.agentId \in DOMAIN agents
       /\ \E q \in PostsFor(posts, p) : posts[q].state = "ok"

====
